---- MODULE Spec2Model ----
(***************************************************************************)
(* Model of the ALN-Ecosystem automation scripts.                          *)
(*                                                                         *)
(* The scripts are independent command line tools, so the module holds one *)
(* group of variables and one specification per tool or pure function:     *)
(*   SpecLayout     measure-and-fit body layout of generate_neurai_display *)
(*   SpecTimestamp  extract_timestamp                                      *)
(*   SpecSegment    segment_line_for_highlighting                          *)
(*   SpecFetch      the paginated fetch routines                           *)
(*   Spec           main() of sync_notion_to_tokens.py                     *)
(* A specification leaves the variables of the other groups untouched.     *)
(***************************************************************************)
EXTENDS Integers, Sequences, FiniteSets, TLC

VARIABLES
    \* ---- generate_neurai_display (body layout) ----
    body_text,            \* the body text, as the sequence of its words' lengths
    lpc,                  \* position in generate_neurai_display
    font_idx,             \* index into FONT_SIZES of the candidate tried next
    selected_size,        \* size of selected_font, NoFont before a choice
    selected_line_height,
    lines,                \* the lines of the last wrap_text_with_font call
    wrap_size,            \* the font size of that call
    display_lines,
    needs_truncation,
    drawn_lines,          \* number of body lines drawn on the canvas
    drawn_marker,         \* whether '[...]' was drawn
    \* ---- extract_timestamp ----
    ts_prefix,            \* the parts the input text was put together from
    ts_form,
    ts_sep,
    ts_body,
    ts_text,              \* the input text
    tpc,                  \* "start", "once" (extracted), "twice" (re-extracted)
    ts_first,             \* result of extract_timestamp(ts_text)
    ts_second,            \* result of extract_timestamp(ts_first.rest)
    \* ---- segment_line_for_highlighting ----
    seg_line,             \* the line, a sequence of characters
    spc,                  \* "start", "done"
    segments,             \* the returned list of (text, is_character_name)
    \* ---- the Notion database and a paginated fetch routine ----
    upstream,             \* the records the queried database holds, in order
    page_size,            \* how many records the server puts in a response
    f_routine,            \* which fetch routine runs
    f_pc,                 \* "loop", "returned", "raised" (left by an exception)
    has_more,
    start_cursor,         \* NoCursor for None
    query_cursor,         \* query_data["start_cursor"], NoCursor when not set
    all_results,
    requests,             \* the page asked for by each request sent, in order
    srv_has_more,         \* has_more of the server's latest answer
    \* ---- main() of sync_notion_to_tokens.py ----
    mpc,                  \* position in main
    character_map,        \* the characters whose names are known
    page_idx,             \* index in all_results of the page processed next
    tokens,               \* rfid -> token entry
    skipped,              \* ids of the pages skipped
    log,                  \* render failures logged, as page ids
    fs_images,            \* rfids with a file in ASSETS_IMAGES
    fs_esp32,             \* rfids with a file in ESP32_SD_IMAGES
    fs_videos,            \* rfids with a file in VIDEOS_DIR
    has_placeholder,      \* ASSETS_IMAGES/placeholder.bmp exists
    tokens_json,          \* content of tokens.json
    json_written,         \* whether main has written tokens.json
    \* ---- start of a script: the NOTION_TOKEN credential ----
    st_script,            \* the script that is run
    environ,              \* NOTION_TOKEN in the process environment
    dotfile,              \* the .env file: missing, without or with the token
    dotenv_installed,     \* whether the dotenv package can be imported
    st_pc,                \* position in the script
    st_message,           \* what the credential check printed
    exit_code,            \* exit code of the process, once st_pc = "exited"
    st_outcome,           \* how the run ended
    net_requests,         \* whether a request was sent to Notion
    st_wrote,             \* whether an output file was written
    \* ---- sync_notion_for_token_gen.py: timeline gaps ----
    g_elements,           \* the fetched elements, by page id
    g_characters,         \* the fetched characters
    g_timeline,           \* the fetched timeline events
    gpc,                  \* position in main
    timeline_graph,       \* result of build_timeline_graph
    timeline_to_tokens,   \* correspondences: event id -> token ids
    orphaned_tokens,      \* correspondences: tokens without timeline event
    unmapped_events,      \* correspondences: events without tokens
    tokens_to_timeline,   \* correspondences: token id -> event ids
    \* ---- logs/archive_logs.py ----
    log_exists,           \* the log file exists
    log_file,             \* the lines of the log file
    archive,              \* the lines of archive/<stem>_<D>.log, by date D
    backup,               \* the lines of <log>.backup
    cutoff_date,          \* cutoff date of the run
    apc,                  \* position of the archiver
    archived_count,       \* first result of archive_log_file
    retained_count,       \* second result of archive_log_file
    a_runs,               \* number of runs started
    original_log,         \* history: the log before the first run
    prev_files,           \* history: cutoff, log and archive before this run
    mem_lines,            \* archive_log_file step by step: the lines read
    next_date,            \* the next date of archived_by_date to be appended
    interrupted,          \* the run was interrupted and started again
    \* ---- scripts/push_tokens_to_notion.py ----
    draft_exists,         \* work-session/draft.json exists
    draft,                \* the tokens of draft.json when the script starts
    draft_json,           \* draft.json: as it was, or cleared
    char_graph_exists,    \* graph/characters.json exists
    ppc,                  \* position in main
    approved_tokens,      \* the filtered tokens
    push_idx,             \* index of the next approved token
    proceed_answer,       \* the response to "Proceed with creation?"
    sent,                 \* the requests sent to Notion, in order
    created_count,        \* elements created
    failed_count,         \* elements that failed
    session_archived,     \* archive_draft was called
    archive_file,         \* the tokens in archive/<session_id>.json
    archive_answer,       \* the answer to "Archive this session?"
    push_exit,            \* exit code, once ppc = "exited"
    \* ---- a run of the token sync that is killed and run again ----
    restarted,            \* the script was killed and started again
    fs_before,            \* history: the image files before the first run
    \* ---- descriptions as text: build_description_field, parse_sf_fields
    \* ---- (three copies) and the display text ----
    txpc,                 \* position: build, parse, extract, done
    tx_built,             \* the description was built from tx_token
    tx_token,             \* the draft token
    description,          \* the Description/Text of the element
    sf_sync,              \* parse_sf_fields of sync_notion_to_tokens.py
    sf_gen,               \* parse_sf_fields of sync_notion_for_token_gen.py
    sf_mock,              \* parse_sf_fields of test_sync_notion_mock.py
    display_text,         \* extract_display_text(description)
    display_text_sync,    \* display_text of process_token
    \* ---- analyze_narrative_value (sync_notion_for_token_gen.py) ----
    nvpc,                 \* position: collect, categorize, done, raised
    nv_elements,          \* the elements fetched
    tokens_with_context,  \* the memory tokens with an SF_RFID
    narrative_value       \* the dict returned

\* selected_font = None, selected_line_height = None: no font size is 0
NoFont == 0

layoutVars == <<body_text, lpc, font_idx, selected_size, selected_line_height,
                lines, wrap_size, display_lines, needs_truncation, drawn_lines,
                drawn_marker>>

timestampVars == <<ts_prefix, ts_form, ts_sep, ts_body, ts_text, tpc,
                   ts_first, ts_second>>

segmentVars == <<seg_line, spc, segments>>

fetchVars == <<upstream, page_size, f_routine, f_pc, has_more, start_cursor,
               query_cursor, all_results, requests, srv_has_more>>

mainVars == <<mpc, character_map, page_idx, tokens, skipped, log, fs_images,
              fs_esp32, fs_videos, has_placeholder, tokens_json, json_written>>

startupVars == <<st_script, environ, dotfile, dotenv_installed, st_pc,
                 st_message, exit_code, st_outcome, net_requests, st_wrote>>

gapVars == <<g_elements, g_characters, g_timeline, gpc, timeline_graph,
             timeline_to_tokens, orphaned_tokens, unmapped_events,
             tokens_to_timeline>>

archiveVars == <<log_exists, log_file, archive, backup, cutoff_date, apc,
                 archived_count, retained_count, a_runs, original_log,
                 prev_files, mem_lines, next_date, interrupted>>

pushVars == <<draft_exists, draft, draft_json, char_graph_exists, ppc,
              approved_tokens, push_idx, proceed_answer, sent,
              created_count, failed_count, session_archived, archive_file,
              archive_answer, push_exit>>

rerunVars == <<restarted, fs_before>>

narrativeVars == <<nvpc, nv_elements, tokens_with_context, narrative_value>>

textVars == <<txpc, tx_built, tx_token, description, sf_sync, sf_gen, sf_mock,
              display_text, display_text_sync>>

\* the variables of the scripts modelled on their own
toolVars ==
    <<startupVars, gapVars, archiveVars, pushVars, rerunVars, textVars,
      narrativeVars>>

vars == <<layoutVars, timestampVars, segmentVars, fetchVars, mainVars,
          toolVars>>

\* what each tool leaves alone: the variables of the other tools
notLayoutVars == <<timestampVars, segmentVars, fetchVars, mainVars, toolVars>>
notTimestampVars == <<layoutVars, segmentVars, fetchVars, mainVars, toolVars>>
notSegmentVars == <<layoutVars, timestampVars, fetchVars, mainVars, toolVars>>
notSyncVars == <<layoutVars, timestampVars, segmentVars, toolVars>>
syncVars == <<layoutVars, timestampVars, segmentVars, fetchVars, mainVars>>
notStartupVars == <<syncVars, gapVars, archiveVars, pushVars, rerunVars,
    textVars, narrativeVars>>
notGapVars == <<syncVars, startupVars, archiveVars, pushVars, rerunVars,
    textVars, narrativeVars>>
notArchiveVars == <<syncVars, startupVars, gapVars, pushVars, rerunVars,
    textVars, narrativeVars>>
notPushVars == <<syncVars, startupVars, gapVars, archiveVars, rerunVars,
    textVars, narrativeVars>>

(***************************************************************************)
(* Small helpers.                                                          *)
(***************************************************************************)
Min(a, b) == IF a <= b THEN a ELSE b

RECURSIVE SumSeq(_)
SumSeq(s) == IF s = <<>> THEN 0 ELSE Head(s) + SumSeq(Tail(s))

Repeat(n, x) == [i \in 1..n |-> x]

(***************************************************************************)
(* sync_notion_to_tokens.py: display constants.                            *)
(***************************************************************************)
WIDTH == 240
HEIGHT == 320
padding == 15
start_y == 62
bottom_reserve == 18

FONT_SIZES_ascending ==
    << <<10, 14>>, <<11, 15>>, <<12, 16>>, <<13, 18>>, <<14, 19>>,
       <<15, 20>>, <<16, 21>>, <<17, 23>>, <<18, 24>> >>

FONT_SIZES ==
    << <<18, 24>>, <<17, 23>>, <<16, 21>>, <<15, 20>>, <<14, 19>>,
       <<13, 18>>, <<12, 16>>, <<11, 15>>, <<10, 14>> >>

max_width == WIDTH - (padding * 2)

\* int((HEIGHT - start_y - bottom_reserve) / line_height), all positive
max_lines_for_height(line_height) ==
    (HEIGHT - start_y - bottom_reserve) \div line_height

(***************************************************************************)
(* Text measurement.  load_font loads a monospace face (DejaVu Sans Mono,  *)
(* advance 1233/2048 em, hinted to whole pixels), so the width that        *)
(* draw.textbbox reports depends only on the number of characters.         *)
(***************************************************************************)
CharWidth(font_size) == (font_size * 1233 + 1024) \div 2048

\* bbox[2] - bbox[0] of a line of n characters
TextWidth(nchars, font_size) == nchars * CharWidth(font_size)

\* characters of a line made of the given words joined by single spaces
LineChars(line) == IF line = <<>> THEN 0 ELSE SumSeq(line) + Len(line) - 1

(***************************************************************************)
(* wrap_text_with_font.  A text is the sequence of the lengths of its      *)
(* words (text.split() drops all whitespace); a line is the sequence of    *)
(* the words on it.  The empty text splits to [''], which adds no line.    *)
(***************************************************************************)
WrapBreaksNoGuard(text_width, mw, current_line) == text_width > mw

\* if text_width > max_width and current_line:
WrapBreaks(text_width, mw, current_line) ==
    text_width > mw /\ current_line # <<>>

RECURSIVE WrapLoop(_, _, _, _, _)
WrapLoop(words, mw, font_size, current_line, acc) ==
    IF words = <<>>
    THEN IF current_line # <<>> THEN Append(acc, current_line) ELSE acc
    ELSE LET word == Head(words)
             test_line == Append(current_line, word)
             text_width == TextWidth(LineChars(test_line), font_size)
         IN IF WrapBreaks(text_width, mw, current_line)
            THEN WrapLoop(Tail(words), mw, font_size, <<word>>,
                          Append(acc, current_line))
            ELSE WrapLoop(Tail(words), mw, font_size, test_line, acc)

wrap_text_with_font(text, mw, font_size) ==
    WrapLoop(text, mw, font_size, <<>>, <<>>)

(***************************************************************************)
(* generate_neurai_display: measure-and-fit.                               *)
(***************************************************************************)
FitsStrict(wrapped, max_lines) == Len(wrapped) < max_lines

\* if len(lines) <= max_lines:
Fits(wrapped, max_lines) == Len(wrapped) <= max_lines

FallbackKeepAll(wrapped, max_lines) == wrapped

\* display_lines = lines[:max_lines]
FallbackDisplayLines(wrapped, max_lines) ==
    SubSeq(wrapped, 1, Min(Len(wrapped), max_lines))

NeedsTruncationNever(wrapped, max_lines) == FALSE

\* needs_truncation = len(lines) > max_lines
NeedsTruncation(wrapped, max_lines) == Len(wrapped) > max_lines

\* one iteration of "for font_size, line_height in FONT_SIZES"
TryFontSize ==
    /\ lpc = "loop"
    /\ font_idx <= Len(FONT_SIZES)
    /\ LET font_size == FONT_SIZES[font_idx][1]
           line_height == FONT_SIZES[font_idx][2]
           wrapped == wrap_text_with_font(body_text, max_width, font_size)
           max_lines == max_lines_for_height(line_height)
       IN /\ lines' = wrapped
          /\ wrap_size' = font_size
          /\ IF Fits(wrapped, max_lines)
             THEN /\ selected_size' = font_size
                  /\ selected_line_height' = line_height
                  /\ display_lines' = wrapped
                  /\ font_idx' = font_idx
                  /\ lpc' = "after_loop"
             ELSE /\ font_idx' = font_idx + 1
                  /\ lpc' = IF font_idx + 1 > Len(FONT_SIZES)
                            THEN "after_loop" ELSE "loop"
                  /\ UNCHANGED <<selected_size, selected_line_height,
                                 display_lines>>
    /\ UNCHANGED <<body_text, needs_truncation, drawn_lines, drawn_marker>>
    /\ UNCHANGED notLayoutVars

\* "if selected_font is None: ... else: needs_truncation = False"
SelectOrFallback ==
    /\ lpc = "after_loop"
    /\ IF selected_size = NoFont
       THEN LET wrapped == wrap_text_with_font(body_text, max_width, 10)
                max_lines == max_lines_for_height(14)
            IN /\ selected_size' = 10
               /\ selected_line_height' = 14
               /\ lines' = wrapped
               /\ wrap_size' = 10
               /\ display_lines' = FallbackDisplayLines(wrapped, max_lines)
               /\ needs_truncation' = NeedsTruncation(wrapped, max_lines)
       ELSE /\ needs_truncation' = FALSE
            /\ UNCHANGED <<selected_size, selected_line_height, lines,
                           wrap_size, display_lines>>
    /\ lpc' = "render"
    /\ UNCHANGED <<body_text, font_idx, drawn_lines, drawn_marker>>
    /\ UNCHANGED notLayoutVars

\* the body rendering loop and the truncation indicator
RenderBody ==
    /\ lpc = "render"
    /\ drawn_lines' = Len(display_lines)
    /\ drawn_marker' = needs_truncation
    /\ lpc' = "done"
    /\ UNCHANGED <<body_text, font_idx, selected_size, selected_line_height,
                   lines, wrap_size, display_lines, needs_truncation>>
    /\ UNCHANGED notLayoutVars

(***************************************************************************)
(* Body texts of the layout specification: two runs of equal words.        *)
(***************************************************************************)
MaxRepeat == 9
WordLens == {4, 10, 19, 36}

BodyTexts ==
    { Repeat(n1, w1) \o Repeat(n2, w2) :
        n1 \in 0..MaxRepeat, w1 \in WordLens,
        n2 \in 0..MaxRepeat, w2 \in WordLens }

LayoutIdle ==
    /\ lpc = "idle"
    /\ body_text = <<>>
    /\ font_idx = 1
    /\ selected_size = NoFont
    /\ selected_line_height = NoFont
    /\ lines = <<>>
    /\ wrap_size = NoFont
    /\ display_lines = <<>>
    /\ needs_truncation = FALSE
    /\ drawn_lines = 0
    /\ drawn_marker = FALSE

InitLayout ==
    /\ lpc = "loop"
    /\ body_text \in BodyTexts
    /\ font_idx = 1
    /\ selected_size = NoFont
    /\ selected_line_height = NoFont
    /\ lines = <<>>
    /\ wrap_size = NoFont
    /\ display_lines = <<>>
    /\ needs_truncation = FALSE
    /\ drawn_lines = 0
    /\ drawn_marker = FALSE

NextLayout ==
    \/ TryFontSize
    \/ SelectOrFallback
    \/ RenderBody

(***************************************************************************)
(* extract_timestamp.  A text is a sequence of characters; "EN" stands for *)
(* the en dash of the character classes [-–].                              *)
(***************************************************************************)
IsDigit(c) == c \in {"0", "1", "2", "3", "4", "5", "6", "7", "8", "9"}

IsUpper(c) ==
    c \in {"A", "B", "C", "D", "E", "F", "G", "H", "I", "J", "K", "L", "M",
           "N", "O", "P", "Q", "R", "S", "T", "U", "V", "W", "X", "Y", "Z"}

IsLower(c) ==
    c \in {"a", "b", "c", "d", "e", "f", "g", "h", "i", "j", "k", "l", "m",
           "n", "o", "p", "q", "r", "s", "t", "u", "v", "w", "x", "y", "z"}

IsAlpha(c) == IsUpper(c) \/ IsLower(c)

\* \s
IsSpace(c) == c = " "

\* [-–]
IsDash(c) == c \in {"-", "EN"}

\* the character at index i, "" past either end
At(t, i) == IF i \in 1..Len(t) THEN t[i] ELSE ""

\* t[i:] (1-based i)
From(t, i) == SubSeq(t, i, Len(t))

\* the length of the run of digits at i, at most max
RECURSIVE DigitRun(_, _, _)
DigitRun(t, i, max) ==
    IF max > 0 /\ IsDigit(At(t, i)) THEN 1 + DigitRun(t, i + 1, max - 1) ELSE 0

RECURSIVE AlphaRun(_, _, _)
AlphaRun(t, i, max) ==
    IF max > 0 /\ IsAlpha(At(t, i)) THEN 1 + AlphaRun(t, i + 1, max - 1) ELSE 0

\* \s* at i: the index of the first character at or after i that is no space
RECURSIVE SkipSpaces(_, _)
SkipSpaces(t, i) == IF IsSpace(At(t, i)) THEN SkipSpaces(t, i + 1) ELSE i

\* \s*[-–]?\s* at i: the index after the match
SkipSeparator(t, i) ==
    LET p == SkipSpaces(t, i)
    IN IF IsDash(At(t, p)) THEN SkipSpaces(t, p + 1) ELSE p

RECURSIVE LStrip(_)
LStrip(t) == IF t # <<>> /\ IsSpace(Head(t)) THEN LStrip(Tail(t)) ELSE t

RECURSIVE RStrip(_)
RStrip(t) ==
    IF t # <<>> /\ IsSpace(t[Len(t)]) THEN RStrip(SubSeq(t, 1, Len(t) - 1)) ELSE t

\* str.strip()
Strip(t) == RStrip(LStrip(t))

\* '??' in ts
RECURSIVE HasUnknown(_)
HasUnknown(t) ==
    /\ Len(t) >= 2
    /\ \/ t[1] = "?" /\ t[2] = "?"
       \/ HasUnknown(Tail(t))

\* (?:\d{1,2}|\?\?) at i: the length matched when c follows it, 0 when none
\* does.  Two digits are tried before one; after a digit that is followed by
\* a digit neither the shorter match nor '??' can be followed by c.
OneOrTwoDigitsOrUnknown(t, i, c) ==
    LET n == DigitRun(t, i, 2)
    IN IF n > 0
       THEN IF At(t, i + n) = c THEN n ELSE 0
       ELSE IF At(t, i) = "?" /\ At(t, i + 1) = "?" /\ At(t, i + 2) = c
            THEN 2 ELSE 0

NoMatch == [matched |-> FALSE, group_end |-> 0, end |-> 0]

\* TOKEN_PREFIX_PATTERN.match: ^[A-Za-z]{2,4}\d{2,4}\s*[-–]\s*
\* The result is match.end(), 0 when there is no match.
TOKEN_PREFIX_PATTERN_end(t) ==
    LET a == AlphaRun(t, 1, 4)
        d == DigitRun(t, a + 1, 4)
        p == SkipSpaces(t, a + d + 1)
    IN IF a >= 2 /\ d >= 2 /\ IsDash(At(t, p))
       THEN SkipSpaces(t, p + 1) - 1
       ELSE 0

\* TIME_PATTERN.match:
\*   ^((?:\d{1,2}|\?\?):(?:\d{2}|\?\?)\s*(?:am|pm|AM|PM)?)\s*[-–]?\s*
TIME_PATTERN_match(t) ==
    LET h == OneOrTwoDigitsOrUnknown(t, 1, ":")
        m == h + 2
        minutes == \/ IsDigit(At(t, m)) /\ IsDigit(At(t, m + 1))
                   \/ At(t, m) = "?" /\ At(t, m + 1) = "?"
        p == SkipSpaces(t, m + 2)
        ampm == <<At(t, p), At(t, p + 1)>> \in
                   { <<"a", "m">>, <<"p", "m">>, <<"A", "M">>, <<"P", "M">> }
        g == IF ampm THEN p + 1 ELSE p - 1
    IN IF h > 0 /\ minutes
       THEN [matched |-> TRUE, group_end |-> g,
             end |-> SkipSeparator(t, g + 1) - 1]
       ELSE NoMatch

\* (?:\d{2,4}|\?\?) at y: the length matched, 0 when there is no match
DATE_PATTERN_year(t, y) ==
    LET n == DigitRun(t, y, 4)
    IN IF n >= 2 THEN n
       ELSE IF At(t, y) = "?" /\ At(t, y + 1) = "?" THEN 2 ELSE 0

\* DATE_PATTERN.match:
\*   ^((?:\d{1,2}|\?\?)/(?:\d{1,2}|\?\?)/(?:\d{2,4}|\?\?))\s*[-–]?\s*
DATE_PATTERN_match(t) ==
    LET mo == OneOrTwoDigitsOrUnknown(t, 1, "/")
        d == OneOrTwoDigitsOrUnknown(t, mo + 2, "/")
        y == DATE_PATTERN_year(t, mo + d + 3)
        g == mo + d + y + 2
    IN IF mo > 0 /\ d > 0 /\ y > 0
       THEN [matched |-> TRUE, group_end |-> g,
             end |-> SkipSeparator(t, g + 1) - 1]
       ELSE NoMatch

NoTimestamp(rest) == [ts |-> <<>>, kind |-> "None", rest |-> rest]

\* the (timestamp_str, timestamp_type, remaining_text) of one pattern's match
Extracted(working_text, m, kind) ==
    LET ts == Strip(SubSeq(working_text, 1, m.group_end))
    IN [ts |-> ts,
        kind |-> IF HasUnknown(ts) THEN "unknown" ELSE kind,
        rest |-> Strip(From(working_text, m.end + 1))]

extract_timestamp(text) ==
    LET working_text == From(text, TOKEN_PREFIX_PATTERN_end(text) + 1)
        time_match == TIME_PATTERN_match(working_text)
        date_match == DATE_PATTERN_match(working_text)
    IN IF time_match.matched
       THEN Extracted(working_text, time_match, "time")
       ELSE IF date_match.matched
            THEN Extracted(working_text, date_match, "date")
            ELSE NoTimestamp(working_text)

(***************************************************************************)
(* Inputs of the timestamp specification: an optional item-code prefix, an *)
(* optional timestamp followed by a separator, and a body of fragments.    *)
(***************************************************************************)
Prefixes ==
    { <<>>,
      <<"T", "A", "C", "0", "0", "1", " ", "-", " ">>,
      <<"a", "b", "1", "2", "-">>,
      <<"A", "L", "R", "0", "0", "1", "2", " ", "EN", " ">> }

TimeForms ==
    { <<"1", ":", "2", "2", "a", "m">>,
      <<"1", "1", ":", "3", "2", "P", "M">>,
      <<"0", "4", ":", "1", "8">>,
      <<"?", "?", ":", "?", "?", "A", "M">>,
      <<"3", ":", "?", "?", " ", "p", "m">> }

DateForms ==
    { <<"0", "5", "/", "1", "2", "/", "2", "0", "2", "2">>,
      <<"1", "1", "/", "1", "0", "/", "2", "0">>,
      <<"3", "/", "2", "/", "1", "9", "9">>,
      <<"?", "?", "/", "?", "?", "/", "?", "?">>,
      <<"?", "?", "/", "7", "/", "2", "0", "2", "0">>,
      <<"?", "?", "/", "?", "?", "/", "?", "?", "?", "?">> }

Separators ==
    { <<" ", "-", " ">>,
      <<" ">>,
      <<"-">>,
      <<" ", "EN", " ">> }

BodyFragments ==
    { <<"M", "a", "r", "c", "u", "s">>,
      <<" ">>,
      <<"V", "I", "C", "T", "O", "R", "I", "A", "'", "s", " ", "l", "a", "b", ".">>,
      <<"3", ":", "4", "5", "p", "m", " ">>,
      <<"1", "/", "2", "/", "2", "2", " ", "-", " ">>,
      <<"T", "A", "C", "0", "0", "1", " ", "-", " ">>,
      <<"?", "?">>,
      <<"1", "2", ":", "5">>,
      <<"9">> }

MaxBodyParts == 2

RECURSIVE Concat(_)
Concat(parts) == IF parts = <<>> THEN <<>> ELSE Head(parts) \o Concat(Tail(parts))

Bodies ==
    { Concat(parts) :
        parts \in UNION { [1..n -> BodyFragments] : n \in 0..MaxBodyParts } }

(***************************************************************************)
(* The timestamp specification: extract once, then extract again from the  *)
(* remaining text.                                                         *)
(***************************************************************************)
TimestampIdle ==
    /\ tpc = "idle"
    /\ ts_prefix = <<>> /\ ts_form = <<>> /\ ts_sep = <<>> /\ ts_body = <<>>
    /\ ts_text = <<>>
    /\ ts_first = NoTimestamp(<<>>)
    /\ ts_second = NoTimestamp(<<>>)

InitTimestamp ==
    /\ tpc = "start"
    /\ ts_prefix \in Prefixes
    /\ ts_form \in TimeForms \cup DateForms \cup {<<>>}
    /\ ts_sep \in IF ts_form = <<>> THEN {<<>>} ELSE Separators
    /\ ts_body \in Bodies
    /\ ts_text = ts_prefix \o ts_form \o ts_sep \o ts_body
    /\ ts_first = NoTimestamp(<<>>)
    /\ ts_second = NoTimestamp(<<>>)

ExtractFirst ==
    /\ tpc = "start"
    /\ ts_first' = extract_timestamp(ts_text)
    /\ tpc' = "once"
    /\ UNCHANGED <<ts_prefix, ts_form, ts_sep, ts_body, ts_text, ts_second>>
    /\ UNCHANGED notTimestampVars

ExtractAgain ==
    /\ tpc = "once"
    /\ ts_second' = extract_timestamp(ts_first.rest)
    /\ tpc' = "twice"
    /\ UNCHANGED <<ts_prefix, ts_form, ts_sep, ts_body, ts_text, ts_first>>
    /\ UNCHANGED notTimestampVars

NextTimestamp ==
    \/ ExtractFirst
    \/ ExtractAgain

(***************************************************************************)
(* segment_line_for_highlighting.  Positions are offsets as in Python: the *)
(* offset i lies between the characters i and i + 1, a match is the pair   *)
(* <<start, end>> of line[start:end].                                      *)
(***************************************************************************)
\* \w
IsWordChar(c) == IsAlpha(c) \/ IsDigit(c) \/ c = "_"

\* \b at offset i
WordBoundary(line, i) == IsWordChar(At(line, i)) # IsWordChar(At(line, i + 1))

\* the length of the run of upper-case letters after offset i
RECURSIVE UpperRun(_, _)
UpperRun(line, i) ==
    IF IsUpper(At(line, i + 1)) THEN 1 + UpperRun(line, i + 1) ELSE 0

\* (?:'[sS])?\b after [A-Z]{k} matched from start: the end of the match, with
\* the possessive tried first, then without it, then with a shorter run of
\* letters (k is at least 2); 0 when nothing matches
RECURSIVE NameMatchEnd(_, _, _)
NameMatchEnd(line, start, k) ==
    LET e == start + k
    IN IF /\ At(line, e + 1) = "'"
          /\ At(line, e + 2) \in {"s", "S"}
          /\ WordBoundary(line, e + 2)
       THEN e + 2
       ELSE IF WordBoundary(line, e)
            THEN e
            ELSE IF k > 2 THEN NameMatchEnd(line, start, k - 1) ELSE 0

\* CHARACTER_NAME_PATTERN matched at offset start: \b[A-Z]{2,}(?:'[sS])?\b
CHARACTER_NAME_PATTERN_at(line, start) ==
    IF WordBoundary(line, start) /\ UpperRun(line, start) >= 2
    THEN NameMatchEnd(line, start, UpperRun(line, start))
    ELSE 0

\* CHARACTER_NAME_PATTERN.finditer(line) from offset pos on: the matches from
\* left to right, each search resuming at the end of the previous match
RECURSIVE FindIter(_, _)
FindIter(line, pos) ==
    IF pos >= Len(line)
    THEN <<>>
    ELSE LET e == CHARACTER_NAME_PATTERN_at(line, pos)
         IN IF e > 0
            THEN <<<<pos, e>>>> \o FindIter(line, e)
            ELSE FindIter(line, pos + 1)

Segment(text, is_name) == [text |-> text, is_name |-> is_name]

TrailingTextDropped(line, last_end, segs) == segs

\* if last_end < len(line): segments.append((line[last_end:], False))
TrailingText(line, last_end, segs) ==
    IF last_end < Len(line)
    THEN Append(segs, Segment(From(line, last_end + 1), FALSE))
    ELSE segs

\* the loop over the matches, then the text after the last match
RECURSIVE SegmentLoop(_, _, _, _)
SegmentLoop(line, matches, last_end, segs) ==
    IF matches = <<>>
    THEN TrailingText(line, last_end, segs)
    ELSE LET start == Head(matches)[1]
             end == Head(matches)[2]
             before == IF start > last_end
                       THEN Append(segs,
                                   Segment(SubSeq(line, last_end + 1, start), FALSE))
                       ELSE segs
         IN SegmentLoop(line, Tail(matches), end,
                        Append(before, Segment(SubSeq(line, start + 1, end), TRUE)))

segment_line_for_highlighting(line) ==
    LET segs == SegmentLoop(line, FindIter(line, 0), 0, <<>>)
    IN IF segs = <<>> THEN <<Segment(line, FALSE)>> ELSE segs

(***************************************************************************)
(* The segmenter specification: every line over a small alphabet.          *)
(***************************************************************************)
MaxLineLen == 5
LineAlphabet == {"A", "S", "s", "'", " ", "1"}

Lines == UNION { [1..n -> LineAlphabet] : n \in 0..MaxLineLen }

SegmentIdle ==
    /\ spc = "idle"
    /\ seg_line = <<>>
    /\ segments = <<>>

InitSegment ==
    /\ spc = "start"
    /\ seg_line \in Lines
    /\ segments = <<>>

SegmentLine ==
    /\ spc = "start"
    /\ segments' = segment_line_for_highlighting(seg_line)
    /\ spc' = "done"
    /\ UNCHANGED seg_line
    /\ UNCHANGED notSegmentVars

NextSegment == SegmentLine

(***************************************************************************)
(* The Notion query endpoint.  The database holds the records of upstream; *)
(* a query answers with page_size of them, has_more and, as next_cursor,   *)
(* the number of the page that follows.                                    *)
(***************************************************************************)
NoCursor == 0

NumServerPages ==
    IF upstream = <<>> THEN 1
    ELSE (Len(upstream) + page_size - 1) \div page_size

ServerResults(k) ==
    SubSeq(upstream, (k - 1) * page_size + 1, Min(k * page_size, Len(upstream)))

ServerHasMore(k) == k < NumServerPages

ServerNextCursor(k) == IF ServerHasMore(k) THEN k + 1 ELSE NoCursor

\* how a request can end: with a page of results, with an error payload
\* (no "results" key; an error status), or with an exception of the client
Answers == {"results", "error", "exception"}

(***************************************************************************)
(* The paginated fetch routines:                                           *)
(*   "memory_tokens"    sync_notion_to_tokens.py fetch_all_memory_tokens   *)
(*   "characters"       sync_notion_to_tokens.py fetch_all_characters      *)
(*   "database"         sync_notion_for_token_gen.py                       *)
(*                      fetch_database_with_pagination                     *)
(*   "gaps_characters"  analyze_story_gaps.py fetch_all_characters         *)
(***************************************************************************)
Routines == {"memory_tokens", "characters", "database", "gaps_characters"}

\* query_data is built once, before the loop, and keeps its start_cursor
KeepsQueryData(routine) == routine \in {"memory_tokens", "database"}

\* the start_cursor of the request sent
SentCursor ==
    IF start_cursor # NoCursor THEN start_cursor
    ELSE IF KeepsQueryData(f_routine) THEN query_cursor ELSE NoCursor

OnFetchErrorRaise(routine, answer) == "raised"

\* what an answer without results does to the routine:
\*   sync_notion_to_tokens.py: 'if "results" not in data: break'; an exception
\*     of requests.post is not caught;
\*   fetch_database_with_pagination: break on either (raise_for_status and
\*     the except clause);
\*   analyze_story_gaps.py: the Notion client raises, and so does
\*     response["results"].
OnFetchError(routine, answer) ==
    IF routine = "database" THEN "returned"
    ELSE IF routine = "gaps_characters" THEN "raised"
    ELSE IF answer = "error" THEN "returned" ELSE "raised"

\* one iteration of "while has_more"
PostQuery(answer) ==
    /\ f_pc = "loop"
    /\ has_more
    /\ LET k == IF SentCursor = NoCursor THEN 1 ELSE SentCursor
       IN /\ requests' = Append(requests, k)
          /\ query_cursor' = IF KeepsQueryData(f_routine) THEN SentCursor
                             ELSE NoCursor
          /\ IF answer = "results"
             THEN /\ all_results' = all_results \o ServerResults(k)
                  /\ has_more' = ServerHasMore(k)
                  /\ start_cursor' = ServerNextCursor(k)
                  /\ srv_has_more' = ServerHasMore(k)
                  /\ f_pc' = IF ServerHasMore(k) THEN "loop" ELSE "returned"
             ELSE /\ f_pc' = OnFetchError(f_routine, answer)
                  /\ UNCHANGED <<all_results, has_more, start_cursor,
                                 srv_has_more>>
    /\ UNCHANGED <<upstream, page_size, f_routine>>

(***************************************************************************)
(* Records of the Elements database, as far as main() looks at them.       *)
(***************************************************************************)
MaxRecords == 2
MaxPageSize == 2
NoRfid == ""
Rfids == {"a", "b"}
NoOwner == ""
Characters == {"c1"}

\* the text between the brackets of an SF_ field of a description: no such
\* field, only blanks, or a value
NoField == "<no field>"
RatingTexts == {NoField, " ", "3", "high"}
MemoryTypeTexts == {NoField, " ", "Personal"}
GroupTexts == {NoField, " ", "Server Logs (x5)"}
SummaryTexts == {NoField, " ", "A note"}

\* the SF_ fields of a description other than SF_RFID
Descriptions ==
    [ValueRating : RatingTexts, MemoryType : MemoryTypeTexts,
     Group : GroupTexts, Summary : SummaryTexts]

NoDescription ==
    [ValueRating |-> NoField, MemoryType |-> NoField,
     Group |-> NoField, Summary |-> NoField]

FullDescription ==
    [ValueRating |-> "3", MemoryType |-> "Personal",
     Group |-> "Server Logs (x5)", Summary |-> "A note"]

\* a page: its place in the database, the SF_RFID parsed from its description
\* (NoRfid when missing or empty), whether its display text is non-blank,
\* the first page of its Owner relation (NoOwner when the relation is empty)
\* and the other SF_ fields of its description
Page(i, rfid, text, owner, sf) ==
    [id |-> i, rfid |-> rfid, text |-> text, owner |-> owner, sf |-> sf]

\* the pages of a batch all carry the full set of SF_ fields; the other
\* descriptions are gone through one page at a time (EntryPages)
PageKinds ==
    (Rfids \cup {NoRfid}) \X BOOLEAN \X (Characters \cup {NoOwner})
        \X {FullDescription}

EntryPages ==
    { Page(1, k[1], k[2], k[3], d) :
        k \in (Rfids \cup {NoRfid}) \X BOOLEAN \X (Characters \cup {NoOwner}),
        d \in Descriptions }

Upstreams ==
    UNION { { [i \in 1..n |-> Page(i, f[i][1], f[i][2], f[i][3], f[i][4])] :
              f \in [1..n -> PageKinds] } : n \in 0..MaxRecords }

FetchIdle ==
    /\ f_pc = "idle"
    /\ upstream = <<>>
    /\ page_size = 1
    /\ f_routine = "memory_tokens"
    /\ has_more = TRUE
    /\ start_cursor = NoCursor
    /\ query_cursor = NoCursor
    /\ all_results = <<>>
    /\ requests = <<>>
    /\ srv_has_more = FALSE

InitFetch ==
    /\ f_pc = "loop"
    /\ upstream \in Upstreams
    /\ page_size \in 1..MaxPageSize
    /\ f_routine \in Routines
    /\ has_more = TRUE
    /\ start_cursor = NoCursor
    /\ query_cursor = NoCursor
    /\ all_results = <<>>
    /\ requests = <<>>
    /\ srv_has_more = FALSE

\* a fetch routine called on its own
FetchStep ==
    /\ \E answer \in Answers : PostQuery(answer)
    /\ UNCHANGED mainVars
    /\ UNCHANGED notSyncVars

NextFetch == FetchStep

(***************************************************************************)
(* sync_notion_to_tokens.py: process_token and main.                       *)
(***************************************************************************)
Null == "null"

\* rfids with a file in ASSETS_AUDIO
AudioFiles == {"b"}

EmptyTokens == [r \in {} |-> Null]

\* how generate_neurai_display can end: both files saved, an exception before
\* anything is written, an exception after the first of the two files
RenderOutcomes == {"saved", "failed", "failed_after_pwa"}

OnRenderExceptionPropagates == "crashed"

\* except Exception as e: print(...) [process_token goes on]
OnRenderException == "process"

\* value.strip() of a bracket content
StripValue(v) == IF v = " " THEN "" ELSE v

\* int(value), None on ValueError
ParseInt(v) == IF v \in {"1", "2", "3", "4", "5"} THEN v ELSE Null

\* parse_sf_fields, for the fields other than SF_RFID
parse_sf_fields(sf) ==
    LET Value(v) == IF v = NoField THEN "" ELSE StripValue(v)
        OrNone(v) == IF v = "" THEN Null ELSE v
    IN    ("SF_ValueRating" :> IF Value(sf.ValueRating) = "" THEN Null
                               ELSE ParseInt(Value(sf.ValueRating)))
       @@ ("SF_MemoryType" :> OrNone(Value(sf.MemoryType)))
       @@ ("SF_Group" :> Value(sf.Group))
       @@ ("SF_Summary" :> OrNone(Value(sf.Summary)))

ShouldRenderIfMissing(page, images) == page.text /\ page.rfid \notin images

\* if display_text and display_text.strip()
ShouldRender(page, images) == page.text

HasRfidAlways(page) == TRUE

\* if not sf_data.get('SF_RFID'): return None
HasRfid(page) == page.rfid # NoRfid

SummaryAlways(summary) == "summary" :> summary

\* if sf_data.get('SF_Summary'): token_entry["summary"] = ...
Summary(summary) ==
    IF summary # Null THEN "summary" :> summary ELSE [k \in {} |-> Null]

IsVideoTokenWithImage(video_file, image_file) == image_file # Null

\* if video_file and image_file
IsVideoToken(video_file, image_file) ==
    video_file # Null /\ image_file # Null

\* the token entry of a page, given the files found after rendering
TokenEntry(page, images, generated_bmp) ==
    LET found == IF page.rfid \in images THEN "file" ELSE Null
        image_file == IF found = Null /\ ~generated_bmp /\ has_placeholder
                      THEN "placeholder" ELSE found
        audio_file == IF page.rfid \in AudioFiles THEN "file" ELSE Null
        video_file == IF page.rfid \in fs_videos THEN "file" ELSE Null
        is_video == IsVideoToken(video_file, image_file)
        sf_data == parse_sf_fields(page.sf)
    IN    [image |-> IF is_video THEN Null ELSE image_file,
           audio |-> audio_file,
           video |-> video_file,
           processingImage |-> IF is_video THEN image_file ELSE Null,
           owner |-> IF page.owner # NoOwner /\ page.owner \in character_map
                     THEN page.owner ELSE Null]
       @@ ("SF_RFID" :> page.rfid)
       @@ ("SF_ValueRating" :> sf_data["SF_ValueRating"])
       @@ ("SF_MemoryType" :> sf_data["SF_MemoryType"])
       @@ ("SF_Group" :> sf_data["SF_Group"])
       @@ Summary(sf_data["SF_Summary"])

\* the fetch of the memory tokens, one request at a time
FetchMemoryTokens ==
    /\ mpc = "fetch_tokens"
    /\ \E answer \in Answers : PostQuery(answer)
    /\ mpc' = IF f_pc' = "returned" THEN "fetch_characters"
              ELSE IF f_pc' = "raised" THEN "crashed" ELSE "fetch_tokens"
    /\ UNCHANGED <<character_map, page_idx, tokens, skipped, log, fs_images,
                   fs_esp32, fs_videos, has_placeholder, tokens_json,
                   json_written>>
    /\ UNCHANGED notSyncVars

\* character_map = fetch_all_characters(): all names, the names fetched
\* before an error payload, or an exception that ends the script
FetchAllCharacters ==
    /\ mpc = "fetch_characters"
    /\ \E answer \in Answers :
          /\ character_map' \in
               IF answer = "results" THEN {Characters}
               ELSE IF answer = "error" THEN SUBSET Characters
               ELSE {character_map}
          /\ mpc' = IF answer = "exception" THEN "crashed"
                    ELSE IF all_results = <<>> THEN "write" ELSE "process"
    /\ UNCHANGED <<page_idx, tokens, skipped, log, fs_images, fs_esp32,
                   fs_videos, has_placeholder, tokens_json, json_written>>
    /\ UNCHANGED fetchVars
    /\ UNCHANGED notSyncVars

\* one iteration of "for page in pages": process_token(page, character_map)
\* and the bookkeeping of main
ProcessToken ==
    /\ mpc = "process"
    /\ LET page == all_results[page_idx]
           next == IF page_idx + 1 > Len(all_results) THEN "write" ELSE "process"
       IN IF ~HasRfid(page)
          THEN /\ skipped' = Append(skipped, page.id)
               /\ mpc' = next
               /\ UNCHANGED <<tokens, log, fs_images, fs_esp32>>
          ELSE \E outcome \in IF ShouldRender(page, fs_images)
                               THEN RenderOutcomes ELSE {"none"} :
                  LET images == IF outcome \in {"saved", "failed_after_pwa"}
                                THEN fs_images \cup {page.rfid} ELSE fs_images
                      entry == TokenEntry(page, images, outcome = "saved")
                      failed == outcome \in {"failed", "failed_after_pwa"}
                  IN /\ fs_images' = images
                     /\ fs_esp32' = IF outcome = "saved"
                                    THEN fs_esp32 \cup {page.rfid} ELSE fs_esp32
                     /\ log' = IF failed THEN Append(log, page.id) ELSE log
                     /\ IF failed /\ OnRenderException # "process"
                        THEN /\ mpc' = OnRenderException
                             /\ UNCHANGED tokens
                        ELSE /\ mpc' = next
                             /\ tokens' =
                                  [r \in DOMAIN tokens \cup {page.rfid} |->
                                      IF r = page.rfid THEN entry ELSE tokens[r]]
                     /\ UNCHANGED skipped
    /\ page_idx' = page_idx + 1
    /\ UNCHANGED <<character_map, fs_videos, has_placeholder, tokens_json,
                   json_written>>
    /\ UNCHANGED fetchVars
    /\ UNCHANGED notSyncVars

\* json.dump(sorted_tokens, f, indent=2)
WriteTokensJson ==
    /\ mpc = "write"
    /\ tokens_json' = tokens
    /\ json_written' = TRUE
    /\ mpc' = "done"
    /\ UNCHANGED <<character_map, page_idx, tokens, skipped, log, fs_images,
                   fs_esp32, fs_videos, has_placeholder>>
    /\ UNCHANGED fetchVars
    /\ UNCHANGED notSyncVars

MainIdle ==
    /\ mpc = "idle"
    /\ character_map = {}
    /\ page_idx = 1
    /\ tokens = EmptyTokens
    /\ skipped = <<>>
    /\ log = <<>>
    /\ fs_images = {}
    /\ fs_esp32 = {}
    /\ fs_videos = {}
    /\ has_placeholder = FALSE
    /\ tokens_json = EmptyTokens
    /\ json_written = FALSE

InitMain ==
    /\ mpc = "fetch_tokens"
    /\ character_map = {}
    /\ page_idx = 1
    /\ tokens = EmptyTokens
    /\ skipped = <<>>
    /\ log = <<>>
    /\ fs_images \in {{}, {"a"}}
    /\ fs_esp32 = fs_images
    /\ fs_videos \in {{}, {"a"}}
    /\ has_placeholder \in BOOLEAN
    /\ tokens_json = EmptyTokens
    /\ json_written = FALSE

\* main after the two fetches, with a database of one page
InitEntry ==
    /\ upstream \in { <<p>> : p \in EntryPages }
    /\ all_results = upstream
    /\ page_size = 1
    /\ f_routine = "memory_tokens"
    /\ f_pc = "returned"
    /\ has_more = FALSE
    /\ start_cursor = NoCursor
    /\ query_cursor = NoCursor
    /\ requests = <<1>>
    /\ srv_has_more = FALSE
    /\ mpc = "process"
    /\ character_map \in SUBSET Characters
    /\ page_idx = 1
    /\ tokens = EmptyTokens
    /\ skipped = <<>>
    /\ log = <<>>
    /\ fs_images \in {{}, {"a"}}
    /\ fs_esp32 = fs_images
    /\ fs_videos \in {{}, {"a"}}
    /\ has_placeholder \in BOOLEAN
    /\ tokens_json = EmptyTokens
    /\ json_written = FALSE

NextEntry ==
    \/ ProcessToken
    \/ WriteTokensJson

NextMain ==
    \/ FetchMemoryTokens
    \/ FetchAllCharacters
    \/ ProcessToken
    \/ WriteTokensJson

(***************************************************************************)
(* The start of a script: .env loading and the NOTION_TOKEN check at       *)
(* module level, then main.                                                *)
(***************************************************************************)
Scripts == {"sync_notion_to_tokens", "sync_notion_for_token_gen",
            "push_tokens_to_notion", "compare_rfid_with_files",
            "analyze_story_gaps", "test_notion_access"}

\* os.environ.get("NOTION_TOKEN") when the variable is not set
NotSet == "<None>"

EnvValues == {NotSet, "", "secret"}

DotfileStates == {"missing", "no_token", "token"}

\* load_dotenv(env_path) does not override a variable that is already set
load_dotenv(env) ==
    IF dotenv_installed /\ dotfile = "token" /\ env = NotSet
    THEN "secret" ELSE env

\* what is printed before exit(1): the error line alone, or the error line
\* followed by the two ways of providing the token
MissingTokenMessage(script) ==
    IF script = "push_tokens_to_notion" THEN "error" ELSE "remediation"

\* the exit code of a run that got past the credential check: main returns
\* (or returns 0), or it ends with an exception (or returns 1)
ExitCodeOf(script, outcome) == IF outcome = "success" THEN 0 ELSE 1

LoadDotenv ==
    /\ st_pc = "load_env"
    /\ environ' = load_dotenv(environ)
    /\ st_pc' = "check_token"
    /\ UNCHANGED <<st_script, dotfile, dotenv_installed, st_message, exit_code,
                   st_outcome, net_requests, st_wrote>>
    /\ UNCHANGED notStartupVars

\* if not NOTION_TOKEN: print(...); exit(1)
CheckToken ==
    /\ st_pc = "check_token"
    /\ IF environ \in {NotSet, ""}
       THEN /\ st_message' = MissingTokenMessage(st_script)
            /\ exit_code' = 1
            /\ st_outcome' = "no_token"
            /\ st_pc' = "exited"
       ELSE /\ st_pc' = "main"
            /\ UNCHANGED <<st_message, exit_code, st_outcome>>
    /\ UNCHANGED <<st_script, environ, dotfile, dotenv_installed, net_requests,
                   st_wrote>>
    /\ UNCHANGED notStartupVars

\* main(): the requests to Notion and the output files, up to the exit
RunMain ==
    /\ st_pc = "main"
    /\ \E outcome \in {"success", "exception"}, wrote \in BOOLEAN :
          /\ st_outcome' = outcome
          /\ exit_code' = ExitCodeOf(st_script, outcome)
          /\ st_wrote' = wrote
    /\ net_requests' = TRUE
    /\ st_pc' = "exited"
    /\ UNCHANGED <<st_script, environ, dotfile, dotenv_installed, st_message>>
    /\ UNCHANGED notStartupVars

StartupIdle ==
    /\ st_pc = "idle"
    /\ st_script = "sync_notion_to_tokens"
    /\ environ = NotSet
    /\ dotfile = "missing"
    /\ dotenv_installed = FALSE
    /\ st_message = "none"
    /\ exit_code = 0
    /\ st_outcome = "none"
    /\ net_requests = FALSE
    /\ st_wrote = FALSE

InitStartup ==
    /\ st_pc = "load_env"
    /\ st_script \in Scripts
    /\ environ \in EnvValues
    /\ dotfile \in DotfileStates
    /\ dotenv_installed \in BOOLEAN
    /\ st_message = "none"
    /\ exit_code = 0
    /\ st_outcome = "none"
    /\ net_requests = FALSE
    /\ st_wrote = FALSE

NextStartup ==
    \/ LoadDotenv
    \/ CheckToken
    \/ RunMain

(***************************************************************************)
(* sync_notion_for_token_gen.py: build_timeline_graph and                  *)
(* build_correspondences.                                                  *)
(***************************************************************************)
MaxEvents == 2

\* page ids of elements; "e3" is linked by events but is not among the
\* fetched elements
ElementIds == {"e1", "e2"}
LinkedIds == ElementIds \cup {"e3"}

\* an element: the SF_RFID of its description and whether its Basic Type
\* contains "Memory Token": memory tokens without SF_RFID and with one of
\* two, and an element of another type that has an SF_RFID
ElementKinds ==
    [rfid : {NoRfid, "a", "b"}, is_token : {TRUE}]
        \cup {[rfid |-> "a", is_token |-> FALSE]}

\* a relation property: up to two ids, none twice
Relations(ids) ==
    {<<>>} \cup { <<x>> : x \in ids }
           \cup { p \in ids \X ids : p[1] # p[2] }

EventKinds == Relations(Characters) \X Relations(LinkedIds)

Timelines ==
    UNION { { [i \in 1..n |->
                 [id |-> i, characters |-> f[i][1], memory |-> f[i][2]]] :
              f \in [1..n -> EventKinds] } : n \in 0..MaxEvents }

\* the linked elements that are found and have an SF_RFID, as token ids
RECURSIVE LinkedTokens(_, _)
LinkedTokens(memory_ids, elements) ==
    IF memory_ids = <<>> THEN <<>>
    ELSE LET mem_id == Head(memory_ids)
             rest == LinkedTokens(Tail(memory_ids), elements)
         IN IF mem_id \in DOMAIN elements /\ elements[mem_id].rfid # NoRfid
            THEN <<elements[mem_id].rfid>> \o rest
            ELSE rest

has_tokens_or_characters(linked_tokens, characters_involved) ==
    Len(linked_tokens) > 0 \/ Len(characters_involved) > 0

\* "has_tokens": len(linked_tokens) > 0
has_tokens(linked_tokens, characters_involved) == Len(linked_tokens) > 0

\* the node of one event
EventNode(event, elements, characters) ==
    LET characters_involved ==
            SelectSeq(event.characters, LAMBDA c : c \in characters)
        linked_tokens == LinkedTokens(event.memory, elements)
    IN [id |-> event.id,
        characters_involved |-> characters_involved,
        linked_tokens |-> linked_tokens,
        has_tokens |-> has_tokens(linked_tokens, characters_involved)]

build_timeline_graph(timeline_events, elements, characters) ==
    [i \in 1..Len(timeline_events) |->
        EventNode(timeline_events[i], elements, characters)]

\* the token ids of all nodes
MappedTokens(graph) ==
    UNION { { graph[i].linked_tokens[j] : j \in 1..Len(graph[i].linked_tokens) } :
            i \in 1..Len(graph) }

BuildTimelineGraph ==
    /\ gpc = "build_timeline"
    /\ timeline_graph' = build_timeline_graph(g_timeline, g_elements, g_characters)
    /\ gpc' = "build_correspondences"
    /\ UNCHANGED <<g_elements, g_characters, g_timeline, timeline_to_tokens,
                   orphaned_tokens, unmapped_events, tokens_to_timeline>>
    /\ UNCHANGED notGapVars

\* tokens_to_timeline[token_id]: the event of every link to the token, in
\* the order of the graph
RECURSIVE EventsLinking(_, _)
EventsLinking(graph, token_id) ==
    IF graph = <<>> THEN <<>>
    ELSE LET links == SelectSeq(Head(graph).linked_tokens,
                                LAMBDA t : t = token_id)
         IN [k \in 1..Len(links) |-> Head(graph).id]
            \o EventsLinking(Tail(graph), token_id)

IsOrphanedAlways(token_id, mapped) == TRUE

\* t["token_id"] not in tokens_to_timeline
IsOrphaned(token_id, mapped) == token_id \notin mapped

BuildCorrespondences ==
    /\ gpc = "build_correspondences"
    /\ timeline_to_tokens' =
          [e \in { timeline_graph[i].id : i \in 1..Len(timeline_graph) } |->
              timeline_graph[e].linked_tokens]
    /\ tokens_to_timeline' =
          [t \in MappedTokens(timeline_graph) |->
              EventsLinking(timeline_graph, t)]
    /\ orphaned_tokens' =
          { x \in DOMAIN g_elements :
              /\ g_elements[x].is_token
              /\ g_elements[x].rfid # NoRfid
              /\ IsOrphaned(g_elements[x].rfid, MappedTokens(timeline_graph)) }
    /\ unmapped_events' =
          LET nodes == SelectSeq(timeline_graph, LAMBDA e : ~e.has_tokens)
          IN [n \in 1..Len(nodes) |->
                 [event_id |-> nodes[n].id,
                  characters |-> nodes[n].characters_involved]]
    /\ gpc' = "done"
    /\ UNCHANGED <<g_elements, g_characters, g_timeline, timeline_graph>>
    /\ UNCHANGED notGapVars

GapIdle ==
    /\ gpc = "idle"
    /\ g_elements = <<>>
    /\ g_characters = {}
    /\ g_timeline = <<>>
    /\ timeline_graph = <<>>
    /\ timeline_to_tokens = <<>>
    /\ orphaned_tokens = {}
    /\ unmapped_events = <<>>
    /\ tokens_to_timeline = <<>>

InitGap ==
    /\ gpc = "build_timeline"
    /\ g_elements \in [ElementIds -> ElementKinds]
    /\ g_characters \in SUBSET Characters
    /\ g_timeline \in Timelines
    /\ timeline_graph = <<>>
    /\ timeline_to_tokens = <<>>
    /\ orphaned_tokens = {}
    /\ unmapped_events = <<>>
    /\ tokens_to_timeline = <<>>

NextGap ==
    \/ BuildTimelineGraph
    \/ BuildCorrespondences

(***************************************************************************)
(* logs/archive_logs.py.  Dates are day numbers.  A line is its place in   *)
(* the original log, what TIMESTAMP_PATTERN_1 and TIMESTAMP_PATTERN_2 find *)
(* in it, and whether its bytes are valid UTF-8.                           *)
(***************************************************************************)
MaxLogLines == 3
MaxDay == 2
MaxRuns == 2

Days == 1..MaxDay

\* what a pattern finds in a line: nothing, a date, or digits that match
\* the pattern but are no date (2025-02-30)
NoStamp == [kind |-> "none", day |-> 0]
BadStamp == [kind |-> "invalid", day |-> 0]
DateStamp(d) == [kind |-> "date", day |-> d]

\* lines without date and lines dated by pattern 1, and one line each that is
\* dated by pattern 2, matched by both patterns, matched by digits that are
\* no date, and dated with broken bytes
LineKinds ==
    { [p1 |-> NoStamp, p2 |-> NoStamp, enc |-> e] : e \in {"utf8", "invalid"} }
    \cup { [p1 |-> DateStamp(d), p2 |-> NoStamp, enc |-> "utf8"] : d \in Days }
    \cup { [p1 |-> NoStamp, p2 |-> DateStamp(1), enc |-> "utf8"],
           [p1 |-> DateStamp(1), p2 |-> DateStamp(MaxDay), enc |-> "utf8"],
           [p1 |-> BadStamp, p2 |-> NoStamp, enc |-> "utf8"],
           [p1 |-> DateStamp(1), p2 |-> NoStamp, enc |-> "invalid"] }

Logs ==
    UNION { { [i \in 1..n |->
                 [id |-> i, p1 |-> f[i].p1, p2 |-> f[i].p2, enc |-> f[i].enc]] :
              f \in [1..n -> LineKinds] } : n \in 0..MaxLogLines }

\* open(..., 'r', encoding='utf-8', errors='replace'): broken bytes are read
\* as U+FFFD
Decode(line) ==
    IF line.enc = "invalid" THEN [line EXCEPT !.enc = "replaced"] ELSE line

readlines(file) == [i \in 1..Len(file) |-> Decode(file[i])]

\* parse_log_date before strptime: pattern 1 first, then pattern 2
parse_log_date(line) == IF line.p1 # NoStamp THEN line.p1 ELSE line.p2

\* strptime raises ValueError
Raises(log_lines) ==
    \E i \in 1..Len(log_lines) : parse_log_date(log_lines[i]).kind = "invalid"

IsOldOrCutoff(line, cutoff) ==
    /\ parse_log_date(line).kind = "date"
    /\ parse_log_date(line).day <= cutoff

\* if log_date and log_date < cutoff_date
IsOld(line, cutoff) ==
    /\ parse_log_date(line).kind = "date"
    /\ parse_log_date(line).day < cutoff

\* archived_by_date[date]
ArchivedByDate(log_lines, cutoff, date) ==
    SelectSeq(log_lines,
              LAMBDA l : IsOld(l, cutoff) /\ parse_log_date(l).day = date)

RetainedLines(log_lines, cutoff) ==
    SelectSeq(log_lines, LAMBDA l : ~IsOld(l, cutoff))

WriteBackAll(file, retained_lines, count) == file

\* the log file after the backup and the rewrite
WriteBack(file, retained_lines, count) ==
    IF count > 0 THEN retained_lines ELSE file

\* archive_log_file(log_file_path, archive_dir, cutoff_date)
ArchiveLogFile ==
    /\ apc = "ready"
    /\ prev_files' = [cutoff |-> prev_files.next_cutoff, log |-> log_file,
                      archive |-> archive, next_cutoff |-> cutoff_date]
    /\ IF ~log_exists
       THEN /\ archived_count' = 0
            /\ retained_count' = 0
            /\ apc' = "done"
            /\ UNCHANGED <<log_file, archive, backup>>
       ELSE LET log_lines == readlines(log_file)
                retained_lines == RetainedLines(log_lines, cutoff_date)
                count == Len(log_lines) - Len(retained_lines)
            IN IF Raises(log_lines)
               THEN /\ apc' = "crashed"
                    /\ UNCHANGED <<log_file, archive, backup, archived_count,
                                   retained_count>>
               ELSE /\ archive' = [d \in Days |->
                                      archive[d] \o ArchivedByDate(log_lines, cutoff_date, d)]
                    /\ backup' = IF count > 0 THEN log_file ELSE backup
                    /\ log_file' = WriteBack(log_file, retained_lines, count)
                    /\ archived_count' = count
                    /\ retained_count' = Len(retained_lines)
                    /\ apc' = "done"
    /\ UNCHANGED <<log_exists, cutoff_date, a_runs, original_log, mem_lines,
                   next_date, interrupted>>
    /\ UNCHANGED notArchiveVars

\* the script is run again, on a later day or the same
RunAgain ==
    /\ apc = "done"
    /\ a_runs < MaxRuns
    /\ \E c \in cutoff_date..(MaxDay + 1) : cutoff_date' = c
    /\ a_runs' = a_runs + 1
    /\ apc' = "ready"
    /\ UNCHANGED <<log_exists, log_file, archive, backup, archived_count,
                   retained_count, original_log, prev_files, mem_lines,
                   next_date, interrupted>>
    /\ UNCHANGED notArchiveVars

ArchiveIdle ==
    /\ apc = "idle"
    /\ log_exists = FALSE
    /\ log_file = <<>>
    /\ archive = [d \in Days |-> <<>>]
    /\ backup = <<>>
    /\ cutoff_date = 1
    /\ archived_count = 0
    /\ retained_count = 0
    /\ a_runs = 0
    /\ original_log = <<>>
    /\ prev_files = [cutoff |-> 0, log |-> <<>>, archive |-> <<>>, next_cutoff |-> 0]
    /\ mem_lines = <<>>
    /\ next_date = 1
    /\ interrupted = FALSE

InitArchive ==
    /\ apc = "ready"
    /\ log_exists \in BOOLEAN
    /\ log_file \in IF log_exists THEN Logs ELSE {<<>>}
    /\ original_log = log_file
    /\ archive = [d \in Days |-> <<>>]
    /\ backup = <<>>
    /\ cutoff_date \in 1..(MaxDay + 1)
    /\ archived_count = 0
    /\ retained_count = 0
    /\ a_runs = 1
    /\ prev_files = [cutoff |-> 0, log |-> <<>>, archive |-> <<>>, next_cutoff |-> 0]
    /\ mem_lines = <<>>
    /\ next_date = 1
    /\ interrupted = FALSE

NextArchive ==
    \/ ArchiveLogFile
    \/ RunAgain

(***************************************************************************)
(* scripts/push_tokens_to_notion.py: main.                                 *)
(***************************************************************************)
MaxDraftTokens == 3

\* the event an element is related to: none, an event that is in Notion
\* already, or the event created for the token of a place
NoEvent == [kind |-> "none", of |-> 0]
ExistingEvent == [kind |-> "existing", of |-> 0]
NewEvent(id) == [kind |-> "new", of |-> id]

\* a token of the draft: its place, its status ("" when it has none),
\* whether it asks for a new timeline event and the event it names
DraftKinds ==
    { [status |-> "approved", timeline_event_needed |-> e, timeline_event |-> v] :
        e \in BOOLEAN, v \in {NoEvent, ExistingEvent} }
    \cup { [status |-> st, timeline_event_needed |-> FALSE,
            timeline_event |-> NoEvent] :
             st \in {"in_progress", ""} }

Drafts ==
    UNION { { [i \in 1..n |->
                 [id |-> i, status |-> f[i].status,
                  timeline_event_needed |-> f[i].timeline_event_needed,
                  timeline_event |-> f[i].timeline_event]] :
              f \in [1..n -> DraftKinds] } : n \in 0..MaxDraftTokens }

\* what the user may type at a prompt
Responses == {"yes", "y", "YES", " y ", "no", "", "yeah"}

\* response.strip().lower()
StripLower(r) ==
    IF r = "YES" THEN "yes" ELSE IF r = " y " THEN "y" ELSE r

\* response in ['yes', 'y']
SaysYes(r) == StripLower(r) \in {"yes", "y"}

IsApprovedOrInProgress(t) == t.status \in {"approved", "in_progress"}

\* t.get("status") == "approved"
IsApproved(t) == t.status = "approved"

\* how a POST to /v1/pages can end: status 200, another status, or an
\* exception of requests
PostOutcomes == {"created", "status_error", "exception"}

\* main up to the confirmation prompt
LoadDraft ==
    /\ ppc = "start"
    /\ IF ~draft_exists
       THEN /\ ppc' = "exited" /\ push_exit' = 1
            /\ UNCHANGED approved_tokens
       ELSE LET approved == SelectSeq(draft, IsApproved)
            IN /\ approved_tokens' = approved
               /\ IF Len(approved) = 0
                  THEN ppc' = "exited" /\ push_exit' = 0
                  ELSE IF ~char_graph_exists
                  THEN ppc' = "exited" /\ push_exit' = 1
                  ELSE ppc' = "confirm" /\ UNCHANGED push_exit
    /\ UNCHANGED <<draft_exists, draft, draft_json, char_graph_exists,
                   push_idx, proceed_answer, sent, created_count, failed_count,
                   session_archived, archive_file, archive_answer>>
    /\ UNCHANGED notPushVars

\* response = input("Proceed with creation? (yes/no): ")
Confirm ==
    /\ ppc = "confirm"
    /\ \E response \in Responses :
          /\ proceed_answer' = StripLower(response)
          /\ IF SaysYes(response)
             THEN /\ ppc' = "push"
                  /\ UNCHANGED push_exit
             ELSE /\ ppc' = "exited"
                  /\ push_exit' = 0
    /\ UNCHANGED <<draft_exists, draft, draft_json, char_graph_exists,
                   approved_tokens, push_idx, sent, created_count,
                   failed_count, session_archived, archive_file,
                   archive_answer>>
    /\ UNCHANGED notPushVars

\* token["timeline_event"] after create_timeline_event has returned
TimelineEvent(token, event) ==
    IF event = "created" THEN NewEvent(token.id) ELSE token.timeline_event

\* one iteration of "for token_data in approved_tokens"
PushToken ==
    /\ ppc = "push"
    /\ LET token == approved_tokens[push_idx]
           next == IF push_idx + 1 > Len(approved_tokens) THEN "summary" ELSE "push"
       IN \E event \in IF token.timeline_event_needed THEN PostOutcomes ELSE {"none"},
             element \in PostOutcomes :
             LET event_request == [kind |-> "timeline", token |-> token.id,
                                   outcome |-> event, relation |-> NoEvent]
                 element_request == [kind |-> "element", token |-> token.id,
                                     outcome |-> element,
                                     relation |-> TimelineEvent(token, event)]
             IN IF event = "exception"
                THEN /\ sent' = Append(sent, event_request)
                     /\ ppc' = "crashed"
                     /\ UNCHANGED <<created_count, failed_count, push_idx>>
                ELSE /\ sent' = (IF event = "none" THEN sent
                                 ELSE Append(sent, event_request))
                                \o <<element_request>>
                     /\ IF element = "exception"
                        THEN /\ ppc' = "crashed"
                             /\ UNCHANGED <<created_count, failed_count, push_idx>>
                        ELSE /\ created_count' =
                                   created_count + (IF element = "created" THEN 1 ELSE 0)
                             /\ failed_count' =
                                   failed_count + (IF element = "created" THEN 0 ELSE 1)
                             /\ push_idx' = push_idx + 1
                             /\ ppc' = next
    /\ UNCHANGED <<draft_exists, draft, draft_json, char_graph_exists,
                   approved_tokens, proceed_answer, session_archived,
                   archive_file, archive_answer, push_exit>>
    /\ UNCHANGED notPushVars

CanArchiveAlways(count) == TRUE

\* if created_count > 0
CanArchive(count) == count > 0

\* how the write of the archive file can end
ArchiveOutcomes == {"written", "exception"}

\* the summary, the archive prompt when something was created, and
\* archive_draft(draft)
ArchiveSession ==
    /\ ppc = "summary"
    /\ IF CanArchive(created_count)
       THEN \E response \in Responses, outcome \in ArchiveOutcomes :
               /\ archive_answer' = StripLower(response)
               /\ IF SaysYes(response)
                  THEN IF outcome = "written"
                       THEN /\ session_archived' = TRUE
                            /\ archive_file' = draft
                            /\ ppc' = "clear"
                       ELSE /\ ppc' = "crashed"
                            /\ UNCHANGED <<session_archived, archive_file>>
                  ELSE /\ ppc' = "done"
                       /\ UNCHANGED <<session_archived, archive_file>>
       ELSE /\ ppc' = "done"
            /\ UNCHANGED <<session_archived, archive_file, archive_answer>>
    /\ UNCHANGED <<draft_exists, draft, draft_json, char_graph_exists,
                   approved_tokens, push_idx, proceed_answer, sent,
                   created_count, failed_count, push_exit>>
    /\ UNCHANGED notPushVars

\* open(DRAFT_PATH, 'w') and json.dump of a session without tokens
ClearDraft ==
    /\ ppc = "clear"
    /\ draft_json' = "cleared"
    /\ ppc' = "done"
    /\ UNCHANGED <<draft_exists, draft, char_graph_exists, approved_tokens,
                   push_idx, proceed_answer, sent, created_count, failed_count,
                   session_archived, archive_file, archive_answer, push_exit>>
    /\ UNCHANGED notPushVars

PushIdle ==
    /\ ppc = "idle"
    /\ draft_exists = FALSE
    /\ draft = <<>>
    /\ draft_json = "original"
    /\ char_graph_exists = FALSE
    /\ approved_tokens = <<>>
    /\ push_idx = 1
    /\ proceed_answer = ""
    /\ sent = <<>>
    /\ created_count = 0
    /\ failed_count = 0
    /\ session_archived = FALSE
    /\ archive_file = <<>>
    /\ archive_answer = ""
    /\ push_exit = 0

InitPush ==
    /\ ppc = "start"
    /\ draft_exists \in BOOLEAN
    /\ draft \in IF draft_exists THEN Drafts ELSE {<<>>}
    /\ draft_json = "original"
    /\ char_graph_exists \in BOOLEAN
    /\ approved_tokens = <<>>
    /\ push_idx = 1
    /\ proceed_answer = ""
    /\ sent = <<>>
    /\ created_count = 0
    /\ failed_count = 0
    /\ session_archived = FALSE
    /\ archive_file = <<>>
    /\ archive_answer = ""
    /\ push_exit = 0

NextPush ==
    \/ LoadDraft
    \/ Confirm
    \/ PushToken
    \/ ArchiveSession
    \/ ClearDraft

(***************************************************************************)
(* The token sync terminated from outside and run again.                   *)
(***************************************************************************)
\* what a kill leaves of the files of the step it interrupts: the step has
\* not written yet, or generate_neurai_display has saved the first of its
\* two files, or json.dump has written the entries of the first keys
KilledFiles ==
    LET page == all_results[page_idx]
        keys == DOMAIN tokens
    IN {[images |-> fs_images, json |-> tokens_json]}
       \cup (IF mpc = "process" /\ HasRfid(page) /\ ShouldRender(page, fs_images)
             THEN {[images |-> fs_images \cup {page.rfid}, json |-> tokens_json]}
             ELSE {})
       \cup (IF mpc = "write"
             THEN { [images |-> fs_images,
                     json |-> [r \in written |-> tokens[r]]] :
                    written \in { {}, keys \cap {"a"}, keys } }
             ELSE {})

\* the process is terminated; the script is started again
Kill ==
    /\ ~restarted
    /\ mpc \in {"fetch_tokens", "fetch_characters", "process", "write"}
    /\ \E left \in KilledFiles :
          /\ fs_images' = left.images
          /\ tokens_json' = left.json
    /\ restarted' = TRUE
    /\ mpc' = "fetch_tokens"
    /\ f_pc' = "loop"
    /\ has_more' = TRUE
    /\ start_cursor' = NoCursor
    /\ query_cursor' = NoCursor
    /\ all_results' = <<>>
    /\ requests' = <<>>
    /\ srv_has_more' = FALSE
    /\ character_map' = {}
    /\ page_idx' = 1
    /\ tokens' = EmptyTokens
    /\ skipped' = <<>>
    /\ log' = <<>>
    /\ json_written' = FALSE
    /\ UNCHANGED <<upstream, page_size, f_routine, fs_esp32, fs_videos,
                   has_placeholder, fs_before>>
    /\ UNCHANGED <<layoutVars, timestampVars, segmentVars, startupVars,
                   gapVars, archiveVars, pushVars, textVars, narrativeVars>>

\* a step of the first run
FirstRun == ~restarted /\ NextMain

\* a step of the second run, which meets no error: every request is
\* answered with results and every render succeeds
Rerun ==
    /\ restarted
    /\ NextMain
    /\ mpc' # "crashed"
    /\ log' = <<>>
    /\ f_pc' = "returned" => all_results' = upstream
    /\ mpc' \in {"process", "write", "done"} => character_map' = Characters

RerunIdle ==
    /\ restarted = FALSE
    /\ fs_before = [images |-> {}, esp32 |-> {}]

InitRerun ==
    /\ restarted = FALSE
    /\ fs_before = [images |-> fs_images, esp32 |-> fs_esp32]

NextRerun ==
    \/ FirstRun
    \/ Kill
    \/ Rerun

(***************************************************************************)
(* archive_log_file one file operation at a time, interrupted and run      *)
(* again.                                                                  *)
(***************************************************************************)
NeedsBackupAlways(count) == TRUE

\* if archived_count > 0
NeedsBackup(count) == count > 0

\* exists(), readlines() and the loop that sorts the lines by date
ReadLog ==
    /\ apc = "ready"
    /\ prev_files' = [cutoff |-> prev_files.next_cutoff, log |-> log_file,
                      archive |-> archive, next_cutoff |-> cutoff_date]
    /\ IF ~log_exists
       THEN /\ archived_count' = 0
            /\ retained_count' = 0
            /\ apc' = "done"
            /\ UNCHANGED <<mem_lines, next_date>>
       ELSE IF Raises(readlines(log_file))
            THEN /\ apc' = "crashed"
                 /\ UNCHANGED <<archived_count, retained_count, mem_lines,
                                next_date>>
            ELSE /\ mem_lines' = readlines(log_file)
                 /\ next_date' = 1
                 /\ archived_count' = 0
                 /\ apc' = "append"
                 /\ UNCHANGED retained_count
    /\ UNCHANGED <<log_exists, log_file, archive, backup, cutoff_date, a_runs,
                   original_log, interrupted>>
    /\ UNCHANGED notArchiveVars

\* one turn of the loop over sorted(archived_by_date.items()): the lines of
\* one date are appended to its archive file (a date without lines has no
\* turn in the code); after the last date the function goes on to the backup
\* or returns
AppendArchive ==
    /\ apc = "append"
    /\ LET date_lines == ArchivedByDate(mem_lines, cutoff_date, next_date)
           count == archived_count + Len(date_lines)
       IN /\ archive' = [archive EXCEPT ![next_date] = @ \o date_lines]
          /\ archived_count' = count
          /\ IF next_date < MaxDay
             THEN /\ next_date' = next_date + 1
                  /\ UNCHANGED <<apc, retained_count>>
             ELSE /\ UNCHANGED next_date
                  /\ IF NeedsBackup(count)
                     THEN /\ apc' = "backup"
                          /\ UNCHANGED retained_count
                     ELSE /\ apc' = "done"
                          /\ retained_count' =
                                Len(RetainedLines(mem_lines, cutoff_date))
    /\ UNCHANGED <<log_exists, log_file, backup, cutoff_date, a_runs,
                   original_log, prev_files, mem_lines, interrupted>>
    /\ UNCHANGED notArchiveVars

\* shutil.copy2(log_file_path, backup_path)
BackupLog ==
    /\ apc = "backup"
    /\ backup' = log_file
    /\ apc' = "rewrite"
    /\ UNCHANGED <<log_exists, log_file, archive, cutoff_date, archived_count,
                   retained_count, a_runs, original_log, prev_files,
                   mem_lines, next_date, interrupted>>
    /\ UNCHANGED notArchiveVars

\* open(log_file_path, 'w') and writelines(retained_lines)
RewriteLog ==
    /\ apc = "rewrite"
    /\ log_file' = RetainedLines(mem_lines, cutoff_date)
    /\ retained_count' = Len(RetainedLines(mem_lines, cutoff_date))
    /\ apc' = "done"
    /\ UNCHANGED <<log_exists, archive, backup, cutoff_date, archived_count,
                   a_runs, original_log, prev_files, mem_lines, next_date,
                   interrupted>>
    /\ UNCHANGED notArchiveVars

\* what an interruption leaves of the log file: it is as it was, or, during
\* the rewrite, open(..., 'w') has emptied it and some of the retained lines
\* are written
InterruptedLog ==
    {log_file} \cup
    (IF apc = "rewrite"
     THEN LET retained_lines == RetainedLines(mem_lines, cutoff_date)
          IN { SubSeq(retained_lines, 1, k) : k \in 0..Len(retained_lines) }
     ELSE {})

\* the process is terminated between two file operations or during the
\* rewrite, and the script is started again with the same cutoff
Interrupt ==
    /\ ~interrupted
    /\ apc \in {"append", "backup", "rewrite"}
    /\ log_file' \in InterruptedLog
    /\ interrupted' = TRUE
    /\ mem_lines' = <<>>
    /\ next_date' = 1
    /\ apc' = "ready"
    /\ UNCHANGED <<log_exists, archive, backup, cutoff_date, archived_count,
                   retained_count, a_runs, original_log, prev_files>>
    /\ UNCHANGED notArchiveVars

NextArchiveSteps ==
    \/ ReadLog
    \/ AppendArchive
    \/ BackupLog
    \/ RewriteLog
    \/ Interrupt

(***************************************************************************)
(* Descriptions as text.  A text is a sequence of characters; a Python     *)
(* value is None, a str or an int.                                         *)
(***************************************************************************)
MaxPieces == 2

PyNone == [kind |-> "None", str |-> <<>>, int |-> 0]
PyStr(chars) == [kind |-> "str", str |-> chars, int |-> 0]
PyInt(n) == [kind |-> "int", str |-> <<>>, int |-> n]
\* a key that the dict does not have
Absent == [kind |-> "absent", str |-> <<>>, int |-> 0]

UpperCase == <<"A", "B", "C", "D", "E", "F", "G", "H", "I", "J", "K",
               "L", "M", "N", "O", "P", "Q", "R", "S", "T", "U", "V",
               "W", "X", "Y", "Z">>
LowerCase == <<"a", "b", "c", "d", "e", "f", "g", "h", "i", "j", "k",
               "l", "m", "n", "o", "p", "q", "r", "s", "t", "u", "v",
               "w", "x", "y", "z">>
Digits == <<"0", "1", "2", "3", "4", "5", "6", "7", "8", "9">>

IsWhitespace(c) == c \in {" ", "\n", "\t"}

\* the lower-case letter of each upper-case letter
LowerOf ==
    [c \in { UpperCase[i] : i \in 1..Len(UpperCase) } |->
        LowerCase[CHOOSE i \in 1..Len(UpperCase) : UpperCase[i] = c]]

LowerChar(c) == IF c \in DOMAIN LowerOf THEN LowerOf[c] ELSE c

\* str.lower()
lower(chars) == [i \in 1..Len(chars) |-> LowerChar(chars[i])]

stripNothing(chars) == chars

\* str.strip()
RECURSIVE lstrip(_)
lstrip(chars) ==
    IF chars # <<>> /\ IsWhitespace(Head(chars)) THEN lstrip(Tail(chars))
    ELSE chars

RECURSIVE rstrip(_)
rstrip(chars) ==
    IF chars # <<>> /\ IsWhitespace(chars[Len(chars)])
    THEN rstrip(SubSeq(chars, 1, Len(chars) - 1))
    ELSE chars

strip(chars) == rstrip(lstrip(chars))

\* str.find(sub): the index of the first occurrence, counted from 0, or -1
RECURSIVE FindFrom(_, _, _)
FindFrom(chars, sub, i) ==
    IF i + Len(sub) - 1 > Len(chars) THEN -1
    ELSE IF SubSeq(chars, i, i + Len(sub) - 1) = sub THEN i - 1
    ELSE FindFrom(chars, sub, i + 1)

find(chars, sub) == FindFrom(chars, sub, 1)

\* bool(value)
Truthy(value) ==
    \/ value.kind = "str" /\ value.str # <<>>
    \/ value.kind = "int" /\ value.int # 0

\* str(n)
RECURSIVE NatToChars(_)
NatToChars(n) ==
    IF n < 10 THEN <<Digits[n + 1]>>
    ELSE Append(NatToChars(n \div 10), Digits[(n % 10) + 1])

\* a value in an f-string
Format(value) ==
    IF value.kind = "str" THEN value.str
    ELSE IF value.kind = "int"
    THEN (IF value.int < 0 THEN <<"-">> \o NatToChars(0 - value.int)
          ELSE NatToChars(value.int))
    ELSE <<"N", "o", "n", "e">>

DigitValue(c) == (CHOOSE i \in 1..10 : Digits[i] = c) - 1

RECURSIVE DigitsToNat(_)
DigitsToNat(chars) ==
    IF chars = <<>> THEN 0
    ELSE 10 * DigitsToNat(SubSeq(chars, 1, Len(chars) - 1))
         + DigitValue(chars[Len(chars)])

IsDigits(chars) ==
    /\ chars # <<>>
    /\ \A i \in 1..Len(chars) : \E d \in 1..10 : Digits[d] = chars[i]

\* int(value) if value else None, None on ValueError: an optional sign and
\* decimal digits
IntOrNone(chars) ==
    IF chars = <<>> THEN PyNone
    ELSE IF IsDigits(chars) THEN PyInt(DigitsToNat(chars))
    ELSE IF chars[1] \in {"-", "+"} /\ IsDigits(Tail(chars))
    THEN PyInt(IF chars[1] = "-" THEN 0 - DigitsToNat(Tail(chars))
               ELSE DigitsToNat(Tail(chars)))
    ELSE PyNone

\* the names of the five fields, with the colon of the patterns
FieldNames ==
    ("SF_RFID" :> <<"S", "F", "_", "R", "F", "I", "D", ":">>)
    @@ ("SF_ValueRating" :> <<"S", "F", "_", "V", "a", "l", "u", "e",
                              "R", "a", "t", "i", "n", "g", ":">>)
    @@ ("SF_MemoryType" :> <<"S", "F", "_", "M", "e", "m", "o", "r", "y",
                             "T", "y", "p", "e", ":">>)
    @@ ("SF_Group" :> <<"S", "F", "_", "G", "r", "o", "u", "p", ":">>)
    @@ ("SF_Summary" :> <<"S", "F", "_", "S", "u", "m", "m", "a", "r",
                          "y", ":">>)

Fields == DOMAIN FieldNames

NoFieldMatch == [matched |-> FALSE, group |-> <<>>]

\* the first position from i on that holds no whitespace (\s*), or 0
RECURSIVE SkipWhitespace(_, _)
SkipWhitespace(chars, i) ==
    IF i > Len(chars) THEN 0
    ELSE IF IsWhitespace(chars[i]) THEN SkipWhitespace(chars, i + 1)
    ELSE i

\* the last position from i on that holds "]", or 0
FindCloseLast(chars, i) ==
    LET closes == { k \in i..Len(chars) : chars[k] = "]" }
    IN IF closes = {} THEN 0
       ELSE CHOOSE k \in closes : \A m \in closes : m <= k

\* the first position from i on that holds "]" ([^\]]*\]), or 0
RECURSIVE FindClose(_, _)
FindClose(chars, i) ==
    IF i > Len(chars) THEN 0
    ELSE IF chars[i] = "]" THEN i
    ELSE FindClose(chars, i + 1)

\* the pattern NAME:\s*\[([^\]]*)\] tried at position i, letter case ignored
MatchAt(name, chars, i) ==
    LET n == Len(name)
        open == SkipWhitespace(chars, i + n)
        close == FindClose(chars, open + 1)
    IN IF i + n - 1 > Len(chars) THEN NoFieldMatch
       ELSE IF LowerChar(chars[i]) # LowerChar(name[1]) THEN NoFieldMatch
       ELSE IF lower(SubSeq(chars, i, i + n - 1)) # lower(name) THEN NoFieldMatch
       ELSE IF open = 0 THEN NoFieldMatch
       ELSE IF chars[open] # "[" \/ close = 0 THEN NoFieldMatch
       ELSE [matched |-> TRUE, group |-> SubSeq(chars, open + 1, close - 1)]

RECURSIVE SearchFrom(_, _, _)
SearchFrom(name, chars, i) ==
    IF i > Len(chars) THEN NoFieldMatch
    ELSE IF MatchAt(name, chars, i).matched THEN MatchAt(name, chars, i)
    ELSE SearchFrom(name, chars, i + 1)

\* re.search(pattern, description_text, re.IGNORECASE): the leftmost match
re_search(name, chars) == SearchFrom(name, chars, 1)

\* value if value else None
StrOrNone(chars) == IF chars = <<>> THEN PyNone ELSE PyStr(chars)

\* one field of parse_sf_fields in sync_notion_to_tokens.py
SyncField(field, chars) ==
    LET match == re_search(FieldNames[field], chars)
        value == strip(match.group)
    IN IF match.matched
       THEN CASE field = "SF_RFID" -> StrOrNone(lower(value))
              [] field = "SF_ValueRating" -> IntOrNone(value)
              [] field = "SF_MemoryType" -> StrOrNone(value)
              [] field = "SF_Group" -> PyStr(value)
              [] field = "SF_Summary" -> StrOrNone(value)
       ELSE IF field = "SF_Group" THEN PyStr(<<>>) ELSE PyNone

parse_sf_fields_sync(chars) == [field \in Fields |-> SyncField(field, chars)]

\* one field of parse_sf_fields in sync_notion_for_token_gen.py
GenField(field, chars) ==
    LET match == re_search(FieldNames[field], chars)
        value == strip(match.group)
    IN IF match.matched
       THEN CASE field = "SF_RFID" -> StrOrNone(lower(value))
              [] field = "SF_ValueRating" -> IntOrNone(value)
              [] field = "SF_MemoryType" -> StrOrNone(value)
              [] field = "SF_Group" -> PyStr(value)
              [] field = "SF_Summary" -> StrOrNone(value)
       ELSE IF field = "SF_Group" THEN PyStr(<<>>) ELSE PyNone

parse_sf_fields_gen(chars) == [field \in Fields |-> GenField(field, chars)]

\* one field of the parse_sf_fields inlined in test_sync_notion_mock.py
MockField(field, chars) ==
    LET match == re_search(FieldNames[field], chars)
        value == strip(match.group)
    IN IF match.matched
       THEN CASE field = "SF_RFID" -> StrOrNone(lower(value))
              [] field = "SF_ValueRating" -> IntOrNone(value)
              [] OTHER -> StrOrNone(value)
       ELSE IF field # "SF_Group" THEN PyNone ELSE PyStr(<<>>)

parse_sf_fields_mock(chars) == [field \in Fields |-> MockField(field, chars)]

Marker == <<"S", "F", "_">>

\* extract_display_text(description)
extract_display_text(chars) ==
    IF chars = <<>> THEN <<>>
    ELSE LET sf_start == find(chars, Marker)
         IN IF sf_start > 0 THEN strip(SubSeq(chars, 1, sf_start))
            ELSE strip(chars)

\* display_text in process_token
ProcessTokenDisplayText(chars) ==
    LET sf_start == find(chars, Marker)
    IN IF chars # <<>> /\ sf_start > 0 THEN strip(SubSeq(chars, 1, sf_start))
       ELSE chars

\* token.get(key, '')
GetOrEmpty(value) == IF value = Absent THEN PyStr(<<>>) ELSE value

\* build_description_field(token)
build_description_field(token) ==
    Format(GetOrEmpty(token.display_text))
    \o <<"\n", "\n">> \o FieldNames["SF_RFID"] \o <<" ", "[">>
    \o Format(token.rfid) \o <<"]">>
    \o <<"\n">> \o FieldNames["SF_ValueRating"] \o <<" ", "[">>
    \o Format(token.rating) \o <<"]">>
    \o <<"\n">> \o FieldNames["SF_MemoryType"] \o <<" ", "[">>
    \o Format(token.memory_type) \o <<"]">>
    \o <<"\n">> \o FieldNames["SF_Group"] \o <<" ", "[">>
    \o Format(GetOrEmpty(token.group)) \o <<"]">>
    \o (IF Truthy(token.summary)
        THEN <<"\n">> \o FieldNames["SF_Summary"] \o <<" ", "[">>
             \o Format(token.summary) \o <<"]">>
        ELSE <<>>)

\* the values of the draft tokens
TokenRfids == { PyStr(<<"A", "b", "1">>), PyStr(<<" ", "x">>) }
TokenRatings == { PyInt(3), PyInt(12), PyInt(0 - 1) }
TokenTypes == { PyStr(<<"T", "e", "c", "h">>), PyStr(<<"a", "]", "b">>) }
TokenGroups == { Absent, PyStr(<<>>), PyStr(<<"G", " ", "2">>) }
TokenSummaries == { Absent, PyStr(<<>>), PyStr(<<"A", " ", "s", "u", "m",
                                                 ".">>) }
TokenDisplayTexts ==
    { Absent, PyStr(<<>>), PyStr(<<"H", "i">>),
      PyStr(<<"s", "f", "_", "g", "r", "o", "u", "p", ":", " ", "[", "q">>), PyStr(<<" ", "H", "i", "\n">>), PyStr(<<"I", "n",
                                                               " ", "S",
                                                               "F", "_",
                                                               " ", "7">>) }

DraftTokens ==
    [rfid : TokenRfids, rating : TokenRatings, memory_type : TokenTypes,
     group : TokenGroups, summary : TokenSummaries,
     display_text : TokenDisplayTexts]

NoToken ==
    [rfid |-> Absent, rating |-> Absent, memory_type |-> Absent,
     group |-> Absent, summary |-> Absent, display_text |-> Absent]

\* the pieces of which the descriptions of the elements are made
Pieces ==
    { <<"H", "i", " ">>,
      <<"\n">>,
      <<"S", "F", "_", "R", "F", "I", "D", ":", " ", "[", "A", "b", "1",
        "]">>,
      <<"s", "f", "_", "r", "f", "i", "d", ":", "[", "c", "]">>,
      <<"S", "F", "_", "V", "a", "l", "u", "e", "R", "a", "t", "i", "n",
        "g", ":", " ", "[", " ", "3", " ", "]">>,
      <<"S", "F", "_", "V", "a", "l", "u", "e", "R", "a", "t", "i", "n",
        "g", ":", " ", "[", "x", "]">>,
      <<"S", "F", "_", "M", "e", "m", "o", "r", "y", "T", "y", "p", "e",
        ":", " ", "[", " ", "]">>,
      <<"S", "F", "_", "G", "r", "o", "u", "p", ":", " ", "[", "]">>,
      <<"S", "F", "_", "G", "r", "o", "u", "p", ":", " ", "[", "G", "]">>,
      <<"S", "F", "_", "S", "u", "m", "m", "a", "r", "y", ":", " ", "[",
        "s">> }

RECURSIVE Joined(_)
Joined(pieces) ==
    IF pieces = <<>> THEN <<>> ELSE Head(pieces) \o Joined(Tail(pieces))

DescriptionTexts ==
    UNION { { Joined(f) : f \in [1..n -> Pieces] } : n \in 0..MaxPieces }

\* description = build_description_field(token)
BuildDescriptionField ==
    /\ txpc = "build"
    /\ description' = build_description_field(tx_token)
    /\ txpc' = "parse"
    /\ UNCHANGED <<tx_built, tx_token, sf_sync, sf_gen, sf_mock, display_text,
                   display_text_sync>>
    /\ UNCHANGED <<syncVars, startupVars, gapVars, archiveVars, pushVars,
                   rerunVars, narrativeVars>>

\* the three copies of parse_sf_fields applied to the description
ParseSfFields ==
    /\ txpc = "parse"
    /\ sf_sync' = parse_sf_fields_sync(description)
    /\ sf_gen' = parse_sf_fields_gen(description)
    /\ sf_mock' = parse_sf_fields_mock(description)
    /\ txpc' = "extract"
    /\ UNCHANGED <<tx_built, tx_token, description, display_text,
                   display_text_sync>>
    /\ UNCHANGED <<syncVars, startupVars, gapVars, archiveVars, pushVars,
                   rerunVars, narrativeVars>>

\* the display text as both sync scripts take it from the description
ExtractDisplayText ==
    /\ txpc = "extract"
    /\ display_text' = extract_display_text(description)
    /\ display_text_sync' = ProcessTokenDisplayText(description)
    /\ txpc' = "done"
    /\ UNCHANGED <<tx_built, tx_token, description, sf_sync, sf_gen, sf_mock>>
    /\ UNCHANGED <<syncVars, startupVars, gapVars, archiveVars, pushVars,
                   rerunVars, narrativeVars>>

NoFields == [field \in Fields |-> PyNone]

TextIdle ==
    /\ txpc = "idle"
    /\ tx_built = FALSE
    /\ tx_token = NoToken
    /\ description = <<>>
    /\ sf_sync = NoFields
    /\ sf_gen = NoFields
    /\ sf_mock = NoFields
    /\ display_text = <<>>
    /\ display_text_sync = <<>>

\* a draft token to be pushed, or the description of an element in Notion
InitText ==
    /\ tx_built \in BOOLEAN
    /\ IF tx_built
       THEN /\ tx_token \in DraftTokens
            /\ description = <<>>
            /\ txpc = "build"
       ELSE /\ tx_token = NoToken
            /\ description \in DescriptionTexts
            /\ txpc = "parse"
    /\ sf_sync = NoFields
    /\ sf_gen = NoFields
    /\ sf_mock = NoFields
    /\ display_text = <<>>
    /\ display_text_sync = <<>>

NextText ==
    \/ BuildDescriptionField
    \/ ParseSfFields
    \/ ExtractDisplayText

(***************************************************************************)
(* analyze_narrative_value of sync_notion_for_token_gen.py.                *)
(***************************************************************************)
MaxElements == 2

\* the text between the brackets of SF_ValueRating, Absent without field
NarrativeRatingTexts ==
    { Absent, PyStr(<<"x">>), PyStr(<<"0">>), PyStr(<<"1">>), PyStr(<<" ", "3">>),
      PyStr(<<"5">>) }

\* an element: whether its Basic Type contains "Memory Token", whether its
\* description has an SF_RFID, its rating and whether it has a Timeline
\* Event relation
NarrativeElementKinds ==
    { [is_token |-> k[1], has_rfid |-> k[2], rating_text |-> r, has_timeline |-> t] :
        k \in {<<TRUE, TRUE>>, <<TRUE, FALSE>>, <<FALSE, TRUE>>},
        r \in NarrativeRatingTexts, t \in BOOLEAN }

NarrativeElements ==
    UNION { [1..n -> NarrativeElementKinds] : n \in 0..MaxElements }

\* sf_fields.get("SF_ValueRating", 1): the key is always there, with None
\* for a field that is absent, empty or no integer
RatingOf(elem) ==
    IF elem.rating_text = Absent THEN PyNone
    ELSE IntOrNone(strip(elem.rating_text.str))

\* the loop over the elements
CollectTokens ==
    /\ nvpc = "collect"
    /\ tokens_with_context' =
          LET found == SelectSeq(nv_elements,
                                 LAMBDA e : e.is_token /\ e.has_rfid)
          IN [i \in 1..Len(found) |->
                 [rating |-> RatingOf(found[i]),
                  has_timeline |-> found[i].has_timeline]]
    /\ nvpc' = "categorize"
    /\ UNCHANGED <<nv_elements, narrative_value>>
    /\ UNCHANGED <<syncVars, startupVars, gapVars, archiveVars, pushVars,
                   rerunVars, textVars>>

\* t["rating"] >= 4 raises TypeError for a rating that is None
RaisesTypeError(toks) == \E i \in 1..Len(toks) : toks[i].rating.kind # "int"

\* categorize_by_value(tokens)
categorize_by_value(toks) ==
    [high_4_5 |-> Len(SelectSeq(toks, LAMBDA t : t.rating.int >= 4)),
     mid_2_3 |-> Len(SelectSeq(toks, LAMBDA t : 2 <= t.rating.int /\ t.rating.int <= 3)),
     low_1 |-> Len(SelectSeq(toks, LAMBDA t : t.rating.int = 1))]

NoDistribution == [high_4_5 |-> 0, mid_2_3 |-> 0, low_1 |-> 0]

NoNarrativeValue ==
    [narrative_critical_tokens |-> [total |-> 0, distribution_by_value |-> NoDistribution],
     narrative_dead_ends |-> [total |-> 0, distribution_by_value |-> NoDistribution]]

\* the two groups and their distributions
CategorizeTokens ==
    /\ nvpc = "categorize"
    /\ LET narrative_critical ==
               SelectSeq(tokens_with_context, LAMBDA t : t.has_timeline)
           narrative_dead_ends ==
               SelectSeq(tokens_with_context, LAMBDA t : ~t.has_timeline)
       IN IF RaisesTypeError(tokens_with_context)
          THEN /\ nvpc' = "raised"
               /\ UNCHANGED narrative_value
          ELSE /\ narrative_value' =
                     [narrative_critical_tokens |->
                         [total |-> Len(narrative_critical),
                          distribution_by_value |->
                              categorize_by_value(narrative_critical)],
                      narrative_dead_ends |->
                         [total |-> Len(narrative_dead_ends),
                          distribution_by_value |->
                              categorize_by_value(narrative_dead_ends)]]
               /\ nvpc' = "done"
    /\ UNCHANGED <<nv_elements, tokens_with_context>>
    /\ UNCHANGED <<syncVars, startupVars, gapVars, archiveVars, pushVars,
                   rerunVars, textVars>>

NarrativeIdle ==
    /\ nvpc = "idle"
    /\ nv_elements = <<>>
    /\ tokens_with_context = <<>>
    /\ narrative_value = NoNarrativeValue

InitNarrative ==
    /\ nvpc = "collect"
    /\ nv_elements \in NarrativeElements
    /\ tokens_with_context = <<>>
    /\ narrative_value = NoNarrativeValue

NextNarrative ==
    \/ CollectTokens
    \/ CategorizeTokens

(***************************************************************************)
(* The specifications.                                                     *)
(***************************************************************************)
\* the scripts modelled on their own, not started
ToolsIdle ==
    StartupIdle /\ GapIdle /\ ArchiveIdle /\ PushIdle /\ RerunIdle
        /\ TextIdle /\ NarrativeIdle

LayoutStart ==
    InitLayout /\ TimestampIdle /\ SegmentIdle /\ FetchIdle /\ MainIdle /\ ToolsIdle

SpecLayout == LayoutStart /\ [][NextLayout]_vars

TimestampStart ==
    InitTimestamp /\ LayoutIdle /\ SegmentIdle /\ FetchIdle /\ MainIdle /\ ToolsIdle

SpecTimestamp == TimestampStart /\ [][NextTimestamp]_vars

SegmentStart ==
    InitSegment /\ LayoutIdle /\ TimestampIdle /\ FetchIdle /\ MainIdle /\ ToolsIdle

SpecSegment == SegmentStart /\ [][NextSegment]_vars

FetchStart ==
    InitFetch /\ MainIdle /\ LayoutIdle /\ TimestampIdle /\ SegmentIdle /\ ToolsIdle

SpecFetch == FetchStart /\ [][NextFetch]_vars

EntryStart ==
    /\ InitEntry
    /\ LayoutIdle /\ TimestampIdle /\ SegmentIdle /\ ToolsIdle

SpecEntry == EntryStart /\ [][NextEntry]_vars

\* the tools of the sync scripts, not started
SyncIdle ==
    LayoutIdle /\ TimestampIdle /\ SegmentIdle /\ FetchIdle /\ MainIdle

StartupStart ==
    InitStartup /\ SyncIdle /\ GapIdle /\ ArchiveIdle /\ PushIdle
        /\ RerunIdle /\ TextIdle
        /\ NarrativeIdle

GapStart == InitGap /\ SyncIdle /\ StartupIdle /\ ArchiveIdle /\ PushIdle
        /\ RerunIdle /\ TextIdle
        /\ NarrativeIdle

ArchiveStart ==
    InitArchive /\ SyncIdle /\ StartupIdle /\ GapIdle /\ PushIdle
        /\ RerunIdle /\ TextIdle
        /\ NarrativeIdle

SpecArchiveSteps == ArchiveStart /\ [][NextArchiveSteps]_vars

PushStart == InitPush /\ SyncIdle /\ StartupIdle /\ GapIdle /\ ArchiveIdle
        /\ RerunIdle /\ TextIdle
        /\ NarrativeIdle

SpecPush == PushStart /\ [][NextPush]_vars

SpecArchive == ArchiveStart /\ [][NextArchive]_vars

SpecGap == GapStart /\ [][NextGap]_vars

SpecStartup == StartupStart /\ [][NextStartup]_vars

\* main() of sync_notion_to_tokens.py: the memory tokens are fetched first
Init ==
    /\ InitFetch /\ f_routine = "memory_tokens"
    /\ InitMain
    /\ LayoutIdle /\ TimestampIdle /\ SegmentIdle /\ ToolsIdle

Next == NextMain

\* main() killed once, at any step, and run again; the pages of the batch
\* have no owner, so the character map has no part in the entries
RerunStart ==
    /\ InitFetch /\ f_routine = "memory_tokens"
    /\ \A i \in 1..Len(upstream) : upstream[i].owner = NoOwner
    /\ InitMain
    /\ InitRerun
    /\ LayoutIdle /\ TimestampIdle /\ SegmentIdle
    /\ StartupIdle /\ GapIdle /\ ArchiveIdle /\ PushIdle /\ TextIdle
    /\ NarrativeIdle

NarrativeStart ==
    InitNarrative /\ SyncIdle /\ StartupIdle /\ GapIdle /\ ArchiveIdle
        /\ PushIdle /\ RerunIdle /\ TextIdle

SpecNarrative == NarrativeStart /\ [][NextNarrative]_vars

\* descriptions built, parsed and cut
TextStart ==
    InitText /\ SyncIdle /\ StartupIdle /\ GapIdle /\ ArchiveIdle /\ PushIdle
        /\ RerunIdle
        /\ NarrativeIdle

SpecText == TextStart /\ [][NextText]_vars

SpecRerun == RerunStart /\ [][NextRerun]_vars

Spec == Init /\ [][Next]_vars

(***************************************************************************)
(* Properties of the body layout (checked under SpecLayout).               *)
(***************************************************************************)
\* the candidates whose wrapped line count is within their vertical capacity
FittingCandidates ==
    { i \in 1..9 :
        Len(wrap_text_with_font(body_text, WIDTH - 2 * padding, FONT_SIZES[i][1]))
          <= (HEIGHT - start_y - bottom_reserve) \div FONT_SIZES[i][2] }

\* C1: the body font is the first candidate, scanning FONT_SIZES from (18,24)
\* down to (10,14), whose wrapped line count is within its capacity: no
\* fitting larger candidate is skipped, and a candidate that does not fit is
\* only ever used together with truncation.
C1_FirstFittingCandidate ==
    lpc = "done" =>
        /\ FONT_SIZES[1] = <<18, 24>> /\ FONT_SIZES[9] = <<10, 14>>
        /\ FittingCandidates # {} =>
              \E i \in FittingCandidates :
                  /\ \A j \in FittingCandidates : i <= j
                  /\ selected_size = FONT_SIZES[i][1]
                  /\ selected_line_height = FONT_SIZES[i][2]
                  /\ ~needs_truncation
        /\ FittingCandidates = {} => needs_truncation

\* a middle candidate was chosen after larger ones were tried and rejected
C1_Witness ==
    /\ lpc = "done" /\ ~needs_truncation
    /\ font_idx >= 3 /\ selected_size = FONT_SIZES[font_idx][1]
    /\ Len(display_lines) > 1

\* C2: the number of body lines rendered never exceeds the vertical capacity
\* of the selected line height, whether a candidate fit or the fallback ran.
C2_LinesWithinCapacity ==
    lpc \in {"render", "done"} =>
        /\ Len(display_lines)
             <= (HEIGHT - start_y - bottom_reserve) \div selected_line_height
        /\ drawn_lines
             <= (HEIGHT - start_y - bottom_reserve) \div selected_line_height

\* the fallback dropped lines and the full capacity of 17 lines was drawn
C2_Witness ==
    lpc = "done" /\ needs_truncation /\ drawn_lines = 17 /\ Len(lines) > 17

\* C3 as stated: whenever the text fits the smallest candidate (10,14), the
\* selected size is the largest candidate, 18.
C3_Original ==
    lpc = "done" =>
        (Len(wrap_text_with_font(body_text, WIDTH - 2 * padding, 10))
            <= (HEIGHT - start_y - bottom_reserve) \div 14
         => selected_size = 18)

\* C3 amended: whenever the text fits the largest candidate (18,24), i.e.
\* wraps to at most 10 lines at size 18, the selected size is 18.
C3_FitsLargestSelectsLargest ==
    lpc = "done" =>
        (Len(wrap_text_with_font(body_text, WIDTH - 2 * padding, 18))
            <= (HEIGHT - start_y - bottom_reserve) \div 24
         => selected_size = 18 /\ selected_line_height = 24)

\* a text of several lines that still fits at size 18
C3_Witness ==
    lpc = "done" /\ selected_size = 18 /\ Len(display_lines) = 10

\* C4: when no candidate fits, size 10 with line height 14 is used, exactly
\* the first 17 wrapped lines are rendered and '[...]' is drawn; the marker is
\* drawn exactly when no candidate fit, which is exactly when lines were
\* dropped.
C4_TruncationFallback ==
    lpc = "done" =>
        /\ FittingCandidates = {} =>
              /\ selected_size = 10
              /\ selected_line_height = 14
              /\ display_lines =
                   SubSeq(wrap_text_with_font(body_text, WIDTH - 2 * padding, 10),
                          1, 17)
              /\ drawn_lines = 17
              /\ drawn_marker
        /\ drawn_marker <=> FittingCandidates = {}
        /\ drawn_marker <=>
              Len(display_lines)
                < Len(wrap_text_with_font(body_text, WIDTH - 2 * padding,
                                          selected_size))

\* the fallback ran and the marker was drawn
C4_Witness ==
    lpc = "done" /\ drawn_marker /\ selected_size = 10 /\ font_idx = 10

\* C7 as stated: no line returned by wrap_text_with_font is wider than
\* max_width, and each line break is at a word whose addition would overflow.
C7_Original ==
    wrap_size # NoFont =>
        /\ \A k \in 1..Len(lines) :
              LineChars(lines[k]) * CharWidth(wrap_size) <= WIDTH - 2 * padding
        /\ \A k \in 1..(Len(lines) - 1) :
              (LineChars(lines[k]) + 1 + lines[k + 1][1]) * CharWidth(wrap_size)
                 > WIDTH - 2 * padding

(***************************************************************************)
(* Properties of extract_timestamp (checked under SpecTimestamp).          *)
(***************************************************************************)
\* C5 as stated: whenever extract_timestamp returns a timestamp, extracting
\* again from the remaining text returns no timestamp and that text unchanged.
C5_Original ==
    (tpc = "twice" /\ ts_first.kind # "None") =>
        /\ ts_second.kind = "None"
        /\ ts_second.ts = <<>>
        /\ ts_second.rest = ts_first.rest

\* the text after the leading item-code prefix
PrefixStripped == From(ts_text, TOKEN_PREFIX_PATTERN_end(ts_text) + 1)

\* C6 as stated: the prefix is stripped first, then the time pattern and then
\* the date pattern are tried; the timestamp the text was written with is
\* returned whole, with kind 'unknown' exactly when it contains '??' and
\* otherwise 'time' or 'date', and the remaining text is the body without the
\* prefix and without any part of the timestamp; when neither pattern matches
\* the result is no timestamp and the prefix-stripped text.
C6_Original ==
    tpc # "start" =>
        /\ ts_form # <<>> =>
              ts_first =
                [ts |-> ts_form,
                 kind |-> IF HasUnknown(ts_form) THEN "unknown"
                          ELSE IF ts_form \in TimeForms THEN "time" ELSE "date",
                 rest |-> Strip(ts_body)]
        /\ TIME_PATTERN_match(PrefixStripped).matched =>
              ts_first.kind \in {"time", "unknown"}
        /\ (/\ ~TIME_PATTERN_match(PrefixStripped).matched
            /\ DATE_PATTERN_match(PrefixStripped).matched) =>
              ts_first.kind \in {"date", "unknown"}
        /\ (/\ ~TIME_PATTERN_match(PrefixStripped).matched
            /\ ~DATE_PATTERN_match(PrefixStripped).matched) =>
              ts_first = NoTimestamp(PrefixStripped)
        /\ ts_first.kind = "unknown" <=> HasUnknown(ts_first.ts)

(***************************************************************************)
(* Properties of segment_line_for_highlighting (checked under SpecSegment).*)
(***************************************************************************)
\* two or more upper-case letters with an optional trailing 's or 'S
IsNameText(t) ==
    \/ /\ Len(t) >= 2
       /\ \A i \in 1..Len(t) : IsUpper(t[i])
    \/ /\ Len(t) >= 4
       /\ \A i \in 1..(Len(t) - 2) : IsUpper(t[i])
       /\ t[Len(t) - 1] = "'"
       /\ t[Len(t)] \in {"s", "S"}

\* a word character stands on exactly one side of offset i
AtWordEdge(line, i) ==
    LET word(k) == k \in 1..Len(line) /\ IsWordChar(line[k])
    IN word(i) # word(i + 1)

\* line[i:j] is a character name standing between two word edges
IsNameSpan(line, i, j) ==
    /\ i < j
    /\ AtWordEdge(line, i)
    /\ AtWordEdge(line, j)
    /\ IsNameText(SubSeq(line, i + 1, j))

\* the offset at which segment k starts
SegmentStartOffset(k) ==
    SumSeq([n \in 1..(k - 1) |-> Len(segments[n].text)])

\* C8: the segments are in order and their texts concatenate to the input
\* line; a segment is flagged as a name exactly when it is a match of 'two or
\* more upper-case letters with an optional possessive' (the longest one at
\* its place, and no match starts inside an unflagged segment); a line without
\* any match yields the single segment (line, False).
C8_SegmentsPartitionLine ==
    spc = "done" =>
        /\ Concat([k \in 1..Len(segments) |-> segments[k].text]) = seg_line
        /\ \A k \in 1..Len(segments) :
              LET i == SegmentStartOffset(k)
                  j == i + Len(segments[k].text)
              IN IF segments[k].is_name
                 THEN /\ IsNameSpan(seg_line, i, j)
                      /\ \A j2 \in (j + 1)..Len(seg_line) :
                            ~IsNameSpan(seg_line, i, j2)
                 ELSE \A a \in i..(j - 1) : \A b \in (a + 1)..Len(seg_line) :
                         ~IsNameSpan(seg_line, a, b)
        /\ (\A a \in 0..Len(seg_line) : \A b \in 0..Len(seg_line) :
               ~IsNameSpan(seg_line, a, b))
             => segments = <<Segment(seg_line, FALSE)>>

\* plain text followed by a possessive name
C8_Witness ==
    /\ spc = "done"
    /\ Len(segments) = 2
    /\ segments[1] = Segment(<<" ">>, FALSE)
    /\ segments[2] = Segment(<<"A", "S", "'", "s">>, TRUE)


(***************************************************************************)
(* Properties of the paginated fetch (checked under SpecFetch).            *)
(***************************************************************************)
\* C10: a paginated fetch routine that has returned has requested every page
\* of the server exactly once, in order, returns the concatenation of their
\* results, and the last has_more the server reported is false.
C10_Original ==
    f_pc = "returned" =>
        /\ requests = [k \in 1..NumServerPages |-> k]
        /\ all_results = upstream
        /\ ~srv_has_more

(***************************************************************************)
(* Properties of the batch (checked under Spec).                           *)
(***************************************************************************)
\* the pages of the batch that have an SF_RFID
PagesWithRfid == { i \in 1..Len(all_results) : all_results[i].rfid # NoRfid }

\* C9: a failed render does not abort the batch.  Once a failure is logged
\* the script never ends early; the page of every logged failure has its
\* entry in tokens; while pages remain the loop is still processing them;
\* after the loop every page has been visited and tokens holds an entry under
\* the SF_RFID of every page that has one; and at the end tokens.json has
\* been written with exactly these entries.
C9_RenderFailureDoesNotAbort ==
    /\ log # <<>> => mpc \in {"process", "write", "done"}
    /\ \A n \in 1..Len(log) :
          /\ log[n] < page_idx
          /\ all_results[log[n]].rfid \in DOMAIN tokens
    /\ mpc = "process" => page_idx <= Len(all_results)
    /\ mpc \in {"write", "done"} =>
          /\ page_idx = Len(all_results) + 1
          /\ DOMAIN tokens = { all_results[i].rfid : i \in PagesWithRfid }
          /\ \A r \in DOMAIN tokens : tokens[r]["SF_RFID"] = r
    /\ mpc = "done" => json_written /\ tokens_json = tokens
    /\ json_written => mpc = "done"

\* the render of the first page failed, a later page with another SF_RFID was
\* processed after it, and tokens.json holds both entries
C9_Witness ==
    /\ mpc = "done"
    /\ json_written
    /\ Len(all_results) >= 2
    /\ log # <<>> /\ log[1] = 1
    /\ all_results[2].rfid \notin {NoRfid, all_results[1].rfid}
    /\ {all_results[1].rfid, all_results[2].rfid} \subseteq DOMAIN tokens_json


\* the only query of the memory-token fetch was answered without results:
\* the database is not empty, one request was sent, and the fetch ended
\* with nothing
FirstQueryFailed ==
    /\ upstream # <<>>
    /\ Len(requests) = 1
    /\ all_results = <<>>
    /\ f_pc = "returned"

\* C11: an error payload on the first page of the memory-token fetch is
\* fatal: the script stops (it neither processes pages nor reaches the end of
\* main) and tokens.json is not written.
C11_Original ==
    FirstQueryFailed =>
        /\ ~json_written
        /\ mpc \notin {"write", "done"}

(***************************************************************************)
(* Properties of the start of a script (checked under SpecStartup).        *)
(***************************************************************************)
\* NOTION_TOKEN is neither in the environment nor in the .env file
CredentialAbsent == environ \in {NotSet, ""} /\ dotfile # "token"

\* C12: with the credential absent from the environment and the dotfile,
\* every script prints the remediation message and exits with code 1
\* without having sent a request or written a file; a successful run exits
\* with code 0.
C12_Original ==
    st_pc = "exited" =>
        /\ CredentialAbsent =>
              /\ exit_code = 1
              /\ st_message = "remediation"
              /\ ~net_requests
              /\ ~st_wrote
        /\ st_outcome = "success" => exit_code = 0

(***************************************************************************)
(* Properties of process_token (checked under Spec and SpecEntry).         *)
(***************************************************************************)
\* the pages main has gone through that have no SF_RFID, in order
SkippedSoFar(n) == SelectSeq(SubSeq(all_results, 1, n), LAMBDA p : p.rfid = NoRfid)

\* the SF_RFIDs of the pages whose display text is rendered
RenderedRfids ==
    { all_results[i].rfid : i \in { j \in PagesWithRfid : all_results[j].text } }

\* C13: a page without SF_RFID is skipped.  The skipped list holds exactly
\* the pages without SF_RFID among those gone through, in order; no entry is
\* stored under the missing SF_RFID, in tokens or in tokens.json; no image is
\* written for it (images are only added under the SF_RFIDs of pages that
\* have one and a display text); and at the end of the loop every page has
\* been gone through: the others have their entries.
C13_PageWithoutRfidSkipped ==
    /\ mpc \in {"process", "write", "done"} =>
          /\ skipped = [n \in 1..Len(SkippedSoFar(page_idx - 1)) |->
                           SkippedSoFar(page_idx - 1)[n].id]
          /\ NoRfid \notin DOMAIN tokens
          /\ NoRfid \notin DOMAIN tokens_json
          /\ NoRfid \notin fs_images \cup fs_esp32
          /\ fs_esp32 \subseteq {"a"} \cup RenderedRfids
          /\ fs_images \subseteq {"a"} \cup RenderedRfids
    /\ mpc \in {"write", "done"} =>
          /\ page_idx = Len(all_results) + 1
          /\ DOMAIN tokens = { all_results[i].rfid : i \in PagesWithRfid }

\* a page without SF_RFID was skipped between two pages that were processed
C13_Witness ==
    /\ mpc = "done"
    /\ Len(all_results) >= 2
    /\ all_results[1].rfid = NoRfid /\ all_results[1].text
    /\ all_results[2].rfid # NoRfid
    /\ skipped = <<1>>
    /\ DOMAIN tokens_json = {all_results[2].rfid}

\* the keys every entry has
FixedKeys ==
    {"image", "audio", "video", "processingImage", "SF_RFID", "SF_ValueRating",
     "SF_MemoryType", "SF_Group", "owner"}

\* C14: every entry of tokens.json is keyed by its own SF_RFID and has the
\* keys image, audio, video, processingImage, SF_RFID, SF_ValueRating,
\* SF_MemoryType, SF_Group and owner; SF_Group is a string and never null;
\* the key summary is there exactly when the description has a non-empty
\* SF_Summary, and then holds it.  No other key occurs.
C14_EntryShape ==
    \A r \in DOMAIN tokens_json :
        LET entry == tokens_json[r]
            page == all_results[Len(all_results)]
        IN /\ entry["SF_RFID"] = r
           /\ FixedKeys \subseteq DOMAIN entry
           /\ DOMAIN entry \subseteq FixedKeys \cup {"summary"}
           /\ entry["SF_Group"] # Null
           /\ entry["SF_Group"] \in {"", "Server Logs (x5)"}
           /\ Len(all_results) = 1 =>
                 /\ "summary" \in DOMAIN entry <=>
                       page.sf.Summary \notin {NoField, " "}
                 /\ "summary" \in DOMAIN entry =>
                       entry["summary"] = page.sf.Summary

\* an entry written without summary (blank SF_Summary), with null owner and
\* rating and the empty group
C14_Witness ==
    /\ json_written
    /\ \E r \in DOMAIN tokens_json :
          /\ tokens_json[r]["owner"] = Null
          /\ tokens_json[r]["SF_ValueRating"] = Null
          /\ tokens_json[r]["SF_Group"] = ""
          /\ "summary" \notin DOMAIN tokens_json[r]
          /\ all_results[1].sf.Summary = " "

(***************************************************************************)
(* Properties of the timeline gaps (checked under SpecGap).                *)
(***************************************************************************)
\* the events listed as unmapped
UnmappedIds == { unmapped_events[n].event_id : n \in 1..Len(unmapped_events) }

\* a linked evidence record resolves to a token with an SF_RFID
ResolvesToToken(event) ==
    \E j \in 1..Len(event.memory) :
        /\ event.memory[j] \in DOMAIN g_elements
        /\ g_elements[event.memory[j]].rfid # NoRfid

\* C15: every timeline event without linked evidence records is in the
\* unmapped events, with or without characters; an event is in the unmapped
\* events exactly when none of its linked records resolves to a token with
\* an SF_RFID; every listed event is listed once, in timeline order.
C15_UnmappedEvents ==
    gpc = "done" =>
        /\ \A i \in 1..Len(g_timeline) :
              /\ g_timeline[i].memory = <<>> => g_timeline[i].id \in UnmappedIds
              /\ g_timeline[i].id \in UnmappedIds <=> ~ResolvesToToken(g_timeline[i])
        /\ UnmappedIds \subseteq { g_timeline[i].id : i \in 1..Len(g_timeline) }
        /\ \A n \in 1..Len(unmapped_events) - 1 :
              unmapped_events[n].event_id < unmapped_events[n + 1].event_id

\* an event with a character and no evidence is listed, an event whose
\* evidence resolves to a token is not
C15_Witness ==
    /\ gpc = "done"
    /\ Len(g_timeline) = 2
    /\ g_timeline[1].memory = <<>> /\ g_timeline[1].characters # <<>>
    /\ g_characters # {}
    /\ ResolvesToToken(g_timeline[2])
    /\ UnmappedIds = {1}

(***************************************************************************)
(* Properties of the files written by the batch (checked under Spec).      *)
(***************************************************************************)
\* the two files generate_neurai_display writes for a token
OutputPaths(rfid) == { <<"ASSETS_IMAGES", rfid>>, <<"ESP32_SD_IMAGES", rfid>> }

\* the pages gone through for which a display image is generated
RenderedPages ==
    { i \in PagesWithRfid : i < page_idx /\ all_results[i].text }

\* C16: the image files written for two different pages never have a path
\* in common, and no entry of tokens is overwritten by another page: there
\* are as many entries as pages gone through that have an SF_RFID.
C16_Original ==
    /\ \A i \in RenderedPages : \A j \in RenderedPages \ {i} :
          OutputPaths(all_results[i].rfid) \cap OutputPaths(all_results[j].rfid) = {}
    /\ Cardinality(DOMAIN tokens) =
          Cardinality({ i \in PagesWithRfid : i < page_idx })

(***************************************************************************)
(* Properties of the log archiver (checked under SpecArchive).             *)
(***************************************************************************)
\* the places in the original log of the lines of a file
Ids(file) == [i \in 1..Len(file) |-> file[i].id]

\* the places of the original lines that satisfy a test, in order
Places(Test(_)) == Ids(SelectSeq(original_log, Test))

HasDateBefore(line, day) ==
    \/ line.p1.kind = "date" /\ line.p1.day < day
    \/ line.p1.kind = "none" /\ line.p2.kind = "date" /\ line.p2.day < day

HasDate(line, day) ==
    \/ line.p1.kind = "date" /\ line.p1.day = day
    \/ line.p1.kind = "none" /\ line.p2.kind = "date" /\ line.p2.day = day

Occurrences(file, id) == Len(SelectSeq(file, LAMBDA l : l.id = id))

\* how often it occurs in the archive files of the days up to d
RECURSIVE ArchivedOccurrences(_, _)
ArchivedOccurrences(d, id) ==
    IF d = 0 THEN 0
    ELSE Occurrences(archive[d], id) + ArchivedOccurrences(d - 1, id)

\* the number of lines in the archive files of the days up to d
RECURSIVE ArchivedLines(_)
ArchivedLines(d) ==
    IF d = 0 THEN 0 ELSE Len(archive[d]) + ArchivedLines(d - 1)

ElementRequests ==
    LET reqs == SelectSeq(sent, LAMBDA r : r.kind = "element")
    IN [n \in 1..Len(reqs) |-> reqs[n].token]

\* the places of the approved tokens of the draft, in order
ApprovedIds ==
    LET toks == SelectSeq(draft, LAMBDA t : t.status = "approved")
    IN [n \in 1..Len(toks) |-> toks[n].id]

RECURSIVE UninterruptedRun(_)
UninterruptedRun(n) ==
    IF n = 0
    THEN [tokens |-> EmptyTokens, images |-> fs_before.images,
          esp32 |-> fs_before.esp32]
    ELSE LET before == UninterruptedRun(n - 1)
             page == upstream[n]
             rendered == page.text
             images == IF rendered THEN before.images \cup {page.rfid}
                       ELSE before.images
         IN IF page.rfid = NoRfid THEN before
            ELSE [tokens |->
                     [r \in DOMAIN before.tokens \cup {page.rfid} |->
                         IF r = page.rfid THEN TokenEntry(page, images, rendered)
                         ELSE before.tokens[r]],
                  images |-> images,
                  esp32 |-> IF rendered THEN before.esp32 \cup {page.rfid}
                            ELSE before.esp32]

\* C17: when a run is terminated at any step and the script is then run
\* again to completion on the same upstream data, tokens.json and the image
\* files are those of a single run without interruption.
C17_RerunRepairs ==
    (restarted /\ mpc = "done") =>
        /\ json_written
        /\ tokens_json = UninterruptedRun(Len(upstream)).tokens
        /\ fs_images = UninterruptedRun(Len(upstream)).images
        /\ fs_esp32 = UninterruptedRun(Len(upstream)).esp32

\* the first run was killed with one of the two image files of a token
\* written, and the second run has completed
C17_Witness ==
    /\ restarted /\ mpc = "done"
    /\ Len(upstream) = 2
    /\ fs_before.images = {}
    /\ fs_images = {"a", "b"}
    /\ fs_esp32 = {"a", "b"}
    /\ DOMAIN tokens_json = {"a", "b"}

(***************************************************************************)
(* Properties of archive_log_file step by step (checked under              *)
(* SpecArchiveSteps).                                                      *)
(***************************************************************************)
\* C21 as stated: when a run of archive_log_file was interrupted and the
\* script has then run to completion, every line of the original log occurs
\* exactly once in the log file and the archive files together.
C21_Original ==
    (apc = "done" /\ interrupted) =>
        \A i \in 1..Len(original_log) :
            Occurrences(log_file, i) + ArchivedOccurrences(MaxDay, i) = 1

\* C22: the log file is rewritten only when the backup holds its complete
\* content and at least one line was archived; the backup is written, as a
\* copy of the log, only when at least one line was archived; a run that
\* archives nothing leaves the log file as it was.
C22_BackupBeforeRewrite ==
    [][ /\ log_file' # log_file => (backup = log_file /\ archived_count > 0)
        /\ backup' # backup => (backup' = log_file /\ archived_count > 0)
        /\ (apc' = "done" /\ archived_count' = 0) => log_file' = log_file
      ]_vars

\* a run that archived a line, with the backup holding the log as it was
C22_Witness ==
    /\ apc = "done" /\ ~interrupted
    /\ archived_count > 0
    /\ retained_count > 0
    /\ backup = original_log
    /\ log_file # original_log

(***************************************************************************)
(* Timeline events and the archive of the session (checked under SpecPush).*)
(***************************************************************************)
\* C23 as stated: the request that creates the timeline event of a token is
\* followed by the request that creates its element; the element is related
\* to the new event when the event was created, and to no new event when it
\* was not; a failed event creation does not end the loop.
C23_Original ==
    \A n \in 1..Len(sent) :
        sent[n].kind = "timeline" =>
            /\ n < Len(sent)
            /\ sent[n + 1].kind = "element"
            /\ sent[n + 1].token = sent[n].token
            /\ sent[n].outcome = "created" <=>
                  sent[n + 1].relation = NewEvent(sent[n].token)

\* C24: when the loop has ended, created_count + failed_count is the number
\* of approved tokens; draft.json is reset only when the archive file holds
\* every token of the draft, at least one element was created and the user
\* answered yes or y to the archive prompt.
C24_CountsAndArchive ==
    /\ ppc \in {"summary", "clear", "done"} =>
          created_count + failed_count = Len(ApprovedIds)
    /\ draft_json = "cleared" =>
          /\ session_archived
          /\ archive_file = draft
          /\ created_count > 0
          /\ archive_answer \in {"yes", "y"}
    /\ session_archived => created_count > 0

\* a session with a created element, a failed element and a token that was
\* not approved, archived and cleared
C24_Witness ==
    /\ ppc = "done"
    /\ draft_json = "cleared"
    /\ created_count = 1
    /\ failed_count = 1
    /\ Len(archive_file) = 3

(***************************************************************************)
(* The media fields of an entry (checked under Spec).                      *)
(***************************************************************************)
\* C25: in every entry that process_token has produced, a video that is
\* not null means that image is null, and a processingImage that is not
\* null means that video is not null.
C25_VideoEntries ==
    \A r \in DOMAIN tokens :
        /\ tokens[r]["video"] # Null => tokens[r]["image"] = Null
        /\ tokens[r]["processingImage"] # Null => tokens[r]["video"] # Null

\* a token with video and image file, and a token with an image and no
\* video
C25_Witness ==
    /\ DOMAIN tokens = {"a", "b"}
    /\ tokens["a"]["video"] # Null
    /\ tokens["a"]["processingImage"] # Null
    /\ tokens["b"]["image"] # Null
    /\ tokens["b"]["video"] = Null

(***************************************************************************)
(* Properties of the descriptions as text (checked under SpecText).        *)
(***************************************************************************)
\* C26 as stated: the display text is the text before the first SF_ marker
\* of the description, stripped, wherever the marker is, and holds no SF_
\* marker.
C26_Original ==
    (txpc = "done" /\ find(description, Marker) >= 0) =>
        /\ display_text = strip(SubSeq(description, 1, find(description, Marker)))
        /\ display_text_sync = display_text
        /\ find(display_text, Marker) = -1

\* the str values of a token that go into the description
TextValues(token) ==
    { v.str : v \in { token.rfid, token.memory_type, token.group,
                      token.summary, token.display_text } }

HasChar(chars, c) == \E i \in 1..Len(chars) : chars[i] = c

\* the result of parse_sf_fields and the display text that the claim
\* expects for the description built from a token
RoundTrip(token) ==
    /\ sf_sync["SF_RFID"] = PyStr(lower(token.rfid.str))
    /\ sf_sync["SF_ValueRating"] = token.rating
    /\ sf_sync["SF_MemoryType"] = token.memory_type
    /\ sf_sync["SF_Group"] = GetOrEmpty(token.group)
    /\ sf_sync["SF_Summary"] =
          IF Truthy(token.summary) THEN token.summary ELSE PyNone
    /\ display_text = strip(GetOrEmpty(token.display_text).str)

\* C27 as stated: for every token whose values hold no "]" the description
\* built from it is parsed back to the values of the token.
C27_Original ==
    (txpc = "done" /\ tx_built
        /\ \A v \in TextValues(tx_token) : ~HasChar(v, "]")) =>
        RoundTrip(tx_token)

\* no value holds a bracket, the SF_ values have no blank at either end and
\* the display text holds no SF_ marker
Plain(token) ==
    /\ \A v \in TextValues(token) : ~HasChar(v, "]") /\ ~HasChar(v, "[")
    /\ \A v \in TextValues(token) \ {token.display_text.str} : strip(v) = v
    /\ find(token.display_text.str, Marker) = -1

\* C27: for every token whose values hold neither "[" nor "]", whose
\* SF_RFID, SF_MemoryType, SF_Group and summary have no whitespace at either
\* end and whose display text holds no "SF_", the description built from it
\* is parsed back to the lower-cased SF_RFID, the integer rating, the
\* memory type, the group and the summary of the token (None without
\* summary), and the display text cut from it is the stripped display_text.
C27_RoundTripOfPlainTokens ==
    (txpc = "done" /\ tx_built /\ Plain(tx_token)) => RoundTrip(tx_token)

\* a token with upper-case SF_RFID, a rating of two digits, a summary and
\* blanks around its display text, built and parsed back
C27_Witness ==
    /\ txpc = "done" /\ tx_built /\ Plain(tx_token)
    /\ sf_sync["SF_RFID"] = PyStr(<<"a", "b", "1">>)
    /\ tx_token.rfid = PyStr(<<"A", "b", "1">>)
    /\ sf_sync["SF_ValueRating"] = PyInt(12)
    /\ sf_sync["SF_Summary"].kind = "str"
    /\ display_text = <<"H", "i">>
    /\ tx_token.display_text # PyStr(<<"H", "i">>)

\* C28 as stated: the three copies of parse_sf_fields return the same
\* result for every description.
C28_Original ==
    txpc \in {"extract", "done"} =>
        /\ sf_mock = sf_sync
        /\ sf_gen = sf_sync

(***************************************************************************)
(* Properties of the correspondences (checked under SpecGap).              *)
(***************************************************************************)
Range(seq) == { seq[i] : i \in 1..Len(seq) }

\* the token ids of the elements that an event links to: the linked
\* elements that were fetched and have an SF_RFID
LinkedTokenIds(event) ==
    { g_elements[x].rfid : x \in Range(event.memory) \cap DOMAIN g_elements }
        \ {NoRfid}

\* the memory tokens with an SF_RFID
MemoryTokens ==
    { x \in DOMAIN g_elements :
        g_elements[x].is_token /\ g_elements[x].rfid # NoRfid }

\* C29: token t is in timeline_to_tokens[e] exactly when event e is in
\* tokens_to_timeline[t]; every timeline event is a key of
\* timeline_to_tokens; the orphaned tokens are exactly the memory tokens
\* with an SF_RFID to which no timeline event links, and such a token is
\* orphaned exactly when its SF_RFID is no key of tokens_to_timeline.
C29_Correspondences ==
    gpc = "done" =>
        /\ \A e \in DOMAIN timeline_to_tokens : \A t \in {"a", "b"} :
              t \in Range(timeline_to_tokens[e]) <=>
                 (t \in DOMAIN tokens_to_timeline
                    /\ e \in Range(tokens_to_timeline[t]))
        /\ \A t \in DOMAIN tokens_to_timeline :
              /\ tokens_to_timeline[t] # <<>>
              /\ Range(tokens_to_timeline[t]) \subseteq DOMAIN timeline_to_tokens
        /\ DOMAIN timeline_to_tokens = 1..Len(g_timeline)
        /\ \A e \in 1..Len(g_timeline) :
              Range(timeline_to_tokens[e]) = LinkedTokenIds(g_timeline[e])
        /\ orphaned_tokens =
              { x \in MemoryTokens :
                  \A e \in 1..Len(g_timeline) :
                      g_elements[x].rfid \notin LinkedTokenIds(g_timeline[e]) }
        /\ \A x \in MemoryTokens :
              x \in orphaned_tokens <=>
                 g_elements[x].rfid \notin DOMAIN tokens_to_timeline

\* one token linked by both events, another memory token orphaned
C29_Witness ==
    /\ gpc = "done"
    /\ Len(g_timeline) = 2
    /\ "a" \in DOMAIN tokens_to_timeline
    /\ tokens_to_timeline["a"] = <<1, 2>>
    /\ orphaned_tokens = {"e2"}
    /\ g_elements["e2"].rfid = "b"

(***************************************************************************)
(* Properties of analyze_narrative_value (checked under SpecNarrative).    *)
(***************************************************************************)
BucketSum(group) ==
    group.distribution_by_value.high_4_5 + group.distribution_by_value.mid_2_3
        + group.distribution_by_value.low_1

\* C30 as stated: analyze_narrative_value raises no error, whatever the
\* ratings of the tokens are; every token is counted in exactly one of the
\* two groups; in each group the three buckets sum to the total.
C30_Original ==
    /\ nvpc # "raised"
    /\ nvpc = "done" =>
          /\ narrative_value.narrative_critical_tokens.total
                + narrative_value.narrative_dead_ends.total
                = Len(tokens_with_context)
          /\ BucketSum(narrative_value.narrative_critical_tokens)
                = narrative_value.narrative_critical_tokens.total
          /\ BucketSum(narrative_value.narrative_dead_ends)
                = narrative_value.narrative_dead_ends.total

====
